---- MODULE Spec2Model ----
(***************************************************************************)
(* A model of App.py, the Streamlit application for workplace hazard       *)
(* assessments (Gefaehrdungsbeurteilung).                                  *)
(*                                                                         *)
(* The pure functions of the program (compute_risk, split_hazard_text,     *)
(* as_json, from_json, dump_excel, add_template_items) are operators.      *)
(* Each is exercised by a specification of its own whose initial states    *)
(* draw the argument from a bounded set (variable arg) and whose single    *)
(* action applies the function (variable res).  The session                *)
(* (st.session_state and the assessment it holds) is a state machine with  *)
(* one action per script run: Spec follows a user who rates, edits and     *)
(* imports, SpecLoads one who works with the templates, SpecManual one who *)
(* fills the form of tab 2 and SpecDownload one who saves the JSON text.   *)
(* SpecHeap follows the objects (hazards, their lists of measures, the     *)
(* measures).                                                              *)
(*                                                                         *)
(* Texts that the program takes apart (the hazard description) are         *)
(* sequences of tokens; texts it only stores are strings.                  *)
(***************************************************************************)
EXTENDS Integers, Sequences, FiniteSets, TLC

VARIABLES
    arg,        \* the argument of the pure function under study
    res,        \* its result; the heap in the specification of the objects
    pc,         \* "call" before the function is applied, "done" after
    assess,     \* st.session_state.assessment
    thr_w,      \* the values held by the widgets thr_low, thr_mid, thr_high
    sector,     \* the value held by the sidebar selectbox sel_industry
    last_sector,\* st.session_state.last_sector
    opt_split,  \* st.session_state["opt_split_multi_hazards"]
    upload,     \* the file held by the uploader uploader_json
    sel3,       \* position of the hazard selected in tab 3 (sel_hazard_assess)
    checks,     \* the keys that st.session_state.template_checks maps to True
    said,       \* <<n>> when the last run reported n activities or entries, else <<>>
    json_blob,  \* st.session_state["json_blob"] as <<text>>, <<>> when there is none
    rerun,      \* TRUE when the last script run ended in st.rerun()
    error       \* the exception that ended the last script run, "" when none

fnvars == <<arg, res, pc>>

sessionvars ==
    <<assess, thr_w, sector, last_sector, opt_split, upload, sel3, checks, said, json_blob,
      rerun, error>>

vars ==
    <<arg, res, pc, assess, thr_w, sector, last_sector, opt_split, upload, sel3, checks, said,
      json_blob, rerun, error>>

----------------------------------------------------------------------------
(* Bounds of the model *)

\* thresholds of the pure-function study range over 0..MaxThreshold
MaxThreshold == 26
\* texts given to split_hazard_text have at most MaxLen tokens
MaxLen == 5
\* a sample hazard has at most MaxMeasures measures
MaxMeasures == 2
\* a sample assessment has at most MaxHazards hazards
MaxHazards == 2
\* a sample JSON text lacks at most MaxDropped keys of one object
MaxDropped == 2

----------------------------------------------------------------------------
(* Sequence helpers *)

Range(s) == {s[i] : i \in 1..Len(s)}

MaxOf(S) == CHOOSE x \in S : \A y \in S : y <= x

MinOf(S) == CHOOSE x \in S : \A y \in S : x <= y

RECURSIVE SeqsUpTo(_, _)
\* all sequences over S of length at most n
SeqsUpTo(S, n) ==
    IF n = 0 THEN {<<>>}
    ELSE LET shorter == SeqsUpTo(S, n - 1)
         IN  shorter \cup {Append(s, x) : s \in {t \in shorter : Len(t) = n - 1}, x \in S}

----------------------------------------------------------------------------
(* compute_risk, App.py 73-82 *)

compute_risk_strict(prob, sev, thresholds) ==
    LET v == prob * sev
    IN  IF v < thresholds[1] THEN <<v, "niedrig">>
        ELSE IF v < thresholds[2] THEN <<v, "mittel">>
        ELSE IF v < thresholds[3] THEN <<v, "hoch">>
        ELSE <<v, "sehr hoch">>

\* compute_risk without the band between the first and the second threshold
compute_risk_three_bands(prob, sev, thresholds) ==
    LET v == prob * sev
    IN  IF v <= thresholds[1] THEN <<v, "niedrig">>
        ELSE IF v <= thresholds[3] THEN <<v, "hoch">>
        ELSE <<v, "sehr hoch">>

compute_risk(prob, sev, thresholds) ==
    LET v == prob * sev
    IN  IF v <= thresholds[1] THEN <<v, "niedrig">>
        ELSE IF v <= thresholds[2] THEN <<v, "mittel">>
        ELSE IF v <= thresholds[3] THEN <<v, "hoch">>
        ELSE <<v, "sehr hoch">>

\* the ratings the sliders of tab 3 admit (App.py 1005-1006)
Ratings == 1..5

AscendingTriples ==
    {t \in {<<t1, t2, t3>> : t1 \in 0..MaxThreshold, t2 \in 0..MaxThreshold,
                             t3 \in 0..MaxThreshold} : t[1] < t[2] /\ t[2] < t[3]}

----------------------------------------------------------------------------
(* split_hazard_text, App.py 341-354                                       *)
(*                                                                         *)
(* A text is a sequence of tokens: "a" is a letter, " " a blank, "," "/"   *)
(* and "&" are themselves, and "und" is the word und.  The pattern         *)
(*     \s*(?:,|/| und | & )\s*                                             *)
(* is matched as Python's re does: leftmost, the leading \s* greedy with   *)
(* backtracking, the alternatives in order, the trailing \s* greedy.       *)

Tokens == {"a", " ", ",", "/", "&", "und"}

Texts == SeqsUpTo(Tokens, MaxLen)

IsSpace(c) == c = " "

RECURSIVE SpaceRun(_, _)
\* the number of blanks of text from position i on
SpaceRun(text, i) ==
    IF i <= Len(text) /\ IsSpace(text[i]) THEN 1 + SpaceRun(text, i + 1) ELSE 0

\* (?:,|/| und | & ) at position p: the position after it, 0 when it does not match
AltEnd(text, p) ==
    IF p <= Len(text) /\ text[p] = "," THEN p + 1
    ELSE IF p <= Len(text) /\ text[p] = "/" THEN p + 1
    ELSE IF p + 2 <= Len(text) /\ text[p] = " " /\ text[p + 1] = "und" /\ text[p + 2] = " "
         THEN p + 3
    ELSE IF p + 2 <= Len(text) /\ text[p] = " " /\ text[p + 1] = "&" /\ text[p + 2] = " "
         THEN p + 3
    ELSE 0

\* the trailing \s* of the pattern, the alternative having ended before position e
TrailEnd(text, e) == e + SpaceRun(text, e)

\* the leading \s* takes the longest of the runs in lead, after which the
\* alternative matches
LeadEnd(text, i, lead) ==
    IF lead = {} THEN 0 ELSE TrailEnd(text, AltEnd(text, i + MaxOf(lead)))

\* the pattern anchored at position i: the position after the match, 0 when none
MatchEnd(text, i) ==
    LeadEnd(text, i, {j \in 0..SpaceRun(text, i) : AltEnd(text, i + j) # 0})

\* the least element of a set of positions, 0 when there is none
Leftmost(starts) == IF starts = {} THEN 0 ELSE MinOf(starts)

\* the start of the leftmost match at or after position s, 0 when none
SearchFrom(text, s) == Leftmost({i \in s..Len(text) : MatchEnd(text, i) # 0})

RECURSIVE re_split(_, _)
\* the pieces from position s on, the next match starting at i (0 when none)
PiecesFrom(text, s, i) ==
    IF i = 0 THEN <<SubSeq(text, s, Len(text))>>
    ELSE <<SubSeq(text, s, i - 1)>> \o re_split(text, MatchEnd(text, i))

\* _SPLIT_PATTERN.split(text), from position s on
re_split(text, s) == PiecesFrom(text, s, SearchFrom(text, s))

RECURSIVE lstrip(_)
lstrip(t) == IF t # <<>> /\ IsSpace(t[1]) THEN lstrip(Tail(t)) ELSE t

RECURSIVE rstrip(_)
rstrip(t) == IF t # <<>> /\ IsSpace(t[Len(t)]) THEN rstrip(SubSeq(t, 1, Len(t) - 1)) ELSE t

\* str.strip()
strip(t) == rstrip(lstrip(t))

RECURSIVE Uniq(_, _)
\* the loop of lines 349-353: parts without repetitions, first occurrences kept
Uniq(parts, seen) ==
    IF parts = <<>> THEN <<>>
    ELSE IF parts[1] \in seen THEN Uniq(Tail(parts), seen)
    ELSE <<parts[1]>> \o Uniq(Tail(parts), seen \cup {parts[1]})

\* each piece stripped
Stripped(kept) == [k \in 1..Len(kept) |-> strip(kept[k])]

\* [p.strip() for p in pieces if p and p.strip()]
StrippedParts(pieces) ==
    Stripped(SelectSeq(pieces, LAMBDA p : p # <<>> /\ strip(p) # <<>>))

\* "return uniq if uniq else [text.strip()]", line 354
UniqOrText(uniq, text) == IF uniq # <<>> THEN uniq ELSE <<strip(text)>>

\* split_hazard_text, lines 343-354
split_hazard_text(text) ==
    IF text = <<>> THEN <<>>
    ELSE UniqOrText(Uniq(StrippedParts(re_split(text, 1)), {}), text)

----------------------------------------------------------------------------
(* The data model, App.py 20-67 *)

STOP_LEVELS ==
    << "S (Substitution/Quelle entfernen)", "T (Technisch)", "O (Organisatorisch)",
       "P (PSA)", "Q (Qualifikation/Unterweisung)" >>

STATUS_LIST == <<"offen", "in Umsetzung", "wirksam", "nicht wirksam", "entfallen">>

\* Python's None
None == "None"

\* a Measure whose status starts at the second entry of STATUS_LIST
Measure_in_progress(title, stop_level) ==
    [ title |-> title, stop_level |-> stop_level, responsible |-> "",
      due_date |-> None, status |-> "in Umsetzung", notes |-> "" ]

\* Measure(title, stop_level), the other fields at their defaults
Measure(title, stop_level) ==
    [ title |-> title, stop_level |-> stop_level, responsible |-> "",
      due_date |-> None, status |-> "offen", notes |-> "" ]

\* Hazard(id, area, activity, hazard, sources, existing_controls), the rest defaulted
Hazard(id, area, activity, hazard, sources, existing_controls) ==
    [ id |-> id, area |-> area, activity |-> activity, hazard |-> hazard,
      sources |-> sources, existing_controls |-> existing_controls,
      prob |-> 3, sev |-> 3, risk_value |-> 9, risk_level |-> "mittel",
      additional_measures |-> <<>>, last_review |-> None, reviewer |-> "",
      documentation_note |-> "" ]

\* Assessment(company, location, created_at, created_by), the rest defaulted
Assessment(company, location, created_at, created_by) ==
    [ company |-> company, location |-> location, created_at |-> created_at,
      created_by |-> created_by, industry |-> "Hotel/Gastgewerbe", scope_note |-> "",
      risk_matrix_thresholds |-> [thresholds |-> <<6, 12, 16>>], hazards |-> <<>>,
      measures_plan_note |-> "", documentation_note |-> "", next_review_hint |-> "" ]

----------------------------------------------------------------------------
(* The export rows, App.py 84-184.  A row is a function from the column     *)
(* titles to the cell values, a sheet the sequence of its rows; a joined    *)
(* text is the sequence of its pieces with the separator between them.      *)

RECURSIVE Join(_, _)
\* sep.join(list)
Join(sep, list) ==
    IF Len(list) <= 1 THEN list
    ELSE <<list[1], sep>> \o Join(sep, Tail(list))

\* v or ""
OrEmpty(v) == IF v = None THEN "" ELSE v

\* hazard_to_row, lines 84-92
hazard_to_row(h) ==
    [ col \in {"ID", "Bereich", "Taetigkeit", "Gefaehrdung", "Quellen/Einwirkungen",
               "Bestehende Massnahmen", "Eintrittswahrscheinlichkeit (1-5)",
               "Schadensschwere (1-5)", "Risikosumme", "Risikostufe", "Letzte Pruefung",
               "Pruefer/in", "Dokumentationshinweis"} |->
        CASE col = "ID" -> h.id
          [] col = "Bereich" -> h.area
          [] col = "Taetigkeit" -> h.activity
          [] col = "Gefaehrdung" -> h.hazard
          [] col = "Quellen/Einwirkungen" -> Join("; ", h.sources)
          [] col = "Bestehende Massnahmen" -> Join("; ", h.existing_controls)
          [] col = "Eintrittswahrscheinlichkeit (1-5)" -> h.prob
          [] col = "Schadensschwere (1-5)" -> h.sev
          [] col = "Risikosumme" -> h.risk_value
          [] col = "Risikostufe" -> h.risk_level
          [] col = "Letzte Pruefung" -> OrEmpty(h.last_review)
          [] col = "Pruefer/in" -> h.reviewer
          [] col = "Dokumentationshinweis" -> h.documentation_note ]

\* the row lines 96-100 append for the measure m of the hazard h
measure_row(h, m) ==
    [ col \in {"Gefaehrdungs-ID", "Bereich", "Gefaehrdung", "Massnahme", "STOP(+Q)",
               "Verantwortlich", "Faellig am", "Status", "Hinweis"} |->
        CASE col = "Gefaehrdungs-ID" -> h.id
          [] col = "Bereich" -> h.area
          [] col = "Gefaehrdung" -> h.hazard
          [] col = "Massnahme" -> m.title
          [] col = "STOP(+Q)" -> m.stop_level
          [] col = "Verantwortlich" -> m.responsible
          [] col = "Faellig am" -> OrEmpty(m.due_date)
          [] col = "Status" -> m.status
          [] col = "Hinweis" -> m.notes ]

\* measures_to_rows that stops after the first measure
measures_to_rows_first_only(h) ==
    [i \in 1..(IF h.additional_measures = <<>> THEN 0 ELSE 1) |->
        measure_row(h, h.additional_measures[i])]

\* measures_to_rows, lines 94-102
measures_to_rows(h) ==
    [i \in 1..Len(h.additional_measures) |-> measure_row(h, h.additional_measures[i])]

\* the row lines 117-130 append for the measure m of the hazard h
plan_row(h, m) ==
    [ col \in {"Gefaehrdungs-ID", "Bereich", "Taetigkeit", "Gefaehrdung", "Risikosumme",
               "Risikostufe", "Massnahme", "STOP(+Q)", "Verantwortlich", "Faellig am",
               "Status", "Hinweis"} |->
        CASE col = "Gefaehrdungs-ID" -> h.id
          [] col = "Bereich" -> h.area
          [] col = "Taetigkeit" -> h.activity
          [] col = "Gefaehrdung" -> h.hazard
          [] col = "Risikosumme" -> h.risk_value
          [] col = "Risikostufe" -> h.risk_level
          [] col = "Massnahme" -> m.title
          [] col = "STOP(+Q)" -> m.stop_level
          [] col = "Verantwortlich" -> m.responsible
          [] col = "Faellig am" -> OrEmpty(m.due_date)
          [] col = "Status" -> m.status
          [] col = "Hinweis" -> m.notes ]

RECURSIVE measures_rows(_)
\* [r for h in assess.hazards for r in measures_to_rows(h)], line 111
measures_rows(hazards) ==
    IF hazards = <<>> THEN <<>>
    ELSE measures_to_rows(hazards[1]) \o measures_rows(Tail(hazards))

RECURSIVE plan_rows(_)
\* the loops of lines 114-130
plan_rows(hazards) ==
    IF hazards = <<>> THEN <<>>
    ELSE [i \in 1..Len(hazards[1].additional_measures) |->
             plan_row(hazards[1], hazards[1].additional_measures[i])]
         \o plan_rows(Tail(hazards))

\* dump_excel, lines 108-184: the sheets 10_Gefaehrdungen, 20_Massnahmen and 30_Plan
dump_excel(a) ==
    [ hazards  |-> [k \in 1..Len(a.hazards) |-> hazard_to_row(a.hazards[k])],
      measures |-> measures_rows(a.hazards),
      plan     |-> plan_rows(a.hazards) ]

----------------------------------------------------------------------------
(* as_json and from_json, App.py 308-332                                   *)
(*                                                                         *)
(* A JSON text is [valid |-> FALSE] when json.loads rejects it and         *)
(* [valid |-> TRUE, data |-> d] otherwise, d being the object it denotes:  *)
(* a function from keys to values in which JSON's null is Null.            *)

Null == "null"

\* json.dumps of an Optional[str]
dumps_opt(v) == IF v = None THEN Null ELSE v

\* json.loads of a string or null
loads_opt(v) == IF v = Null THEN None ELSE v

measure_asdict(m) ==
    [ title |-> m.title, stop_level |-> m.stop_level, responsible |-> m.responsible,
      due_date |-> dumps_opt(m.due_date), status |-> m.status, notes |-> m.notes ]

hazard_asdict(h) ==
    [ id |-> h.id, area |-> h.area, activity |-> h.activity, hazard |-> h.hazard,
      sources |-> h.sources, existing_controls |-> h.existing_controls,
      prob |-> h.prob, sev |-> h.sev, risk_value |-> h.risk_value,
      risk_level |-> h.risk_level,
      additional_measures |->
          [k \in 1..Len(h.additional_measures) |-> measure_asdict(h.additional_measures[k])],
      last_review |-> dumps_opt(h.last_review), reviewer |-> h.reviewer,
      documentation_note |-> h.documentation_note ]

as_json(a) ==
    [ valid |-> TRUE,
      data  |->
        [ company |-> a.company, location |-> a.location, created_at |-> a.created_at,
          created_by |-> a.created_by, industry |-> a.industry, scope_note |-> a.scope_note,
          risk_matrix_thresholds |-> a.risk_matrix_thresholds,
          hazards |-> [k \in 1..Len(a.hazards) |-> hazard_asdict(a.hazards[k])],
          measures_plan_note |-> a.measures_plan_note,
          documentation_note |-> a.documentation_note,
          next_review_hint |-> a.next_review_hint ] ]

\* d.get(key, default)
Get(d, key, default) == IF key \in DOMAIN d THEN d[key] ELSE default

\* d.get(key, default) for a key holding a string or null
GetOpt(d, key, default) == IF key \in DOMAIN d THEN loads_opt(d[key]) ELSE default

MeasureFields == {"title", "stop_level", "responsible", "due_date", "status", "notes"}

\* Measure(**m) raises TypeError on an unknown key or a missing title or stop_level
MeasureAccepts(m) ==
    /\ DOMAIN m \subseteq MeasureFields
    /\ {"title", "stop_level"} \subseteq DOMAIN m

\* Measure(**m), line 315
measure_from_dict(m) ==
    [ title |-> m["title"], stop_level |-> m["stop_level"],
      responsible |-> Get(m, "responsible", ""),
      due_date |-> GetOpt(m, "due_date", None),
      status |-> Get(m, "status", "offen"), notes |-> Get(m, "notes", "") ]

\* h["id"], h["area"], h["activity"], h["hazard"] raise KeyError when missing
HazardAccepts(h) == {"id", "area", "activity", "hazard"} \subseteq DOMAIN h

\* hazard_from_dict as an older schema would read it: the review fields are not read
hazard_from_dict_no_review(h) ==
    LET ms == Get(h, "additional_measures", <<>>)
    IN  [ id |-> h["id"], area |-> h["area"], activity |-> h["activity"],
          hazard |-> h["hazard"],
          sources |-> Get(h, "sources", <<>>),
          existing_controls |-> Get(h, "existing_controls", Get(h, "existing", <<>>)),
          prob |-> Get(h, "prob", 3), sev |-> Get(h, "sev", 3),
          risk_value |-> Get(h, "risk_value", 9),
          risk_level |-> Get(h, "risk_level", "mittel"),
          additional_measures |-> [k \in 1..Len(ms) |-> measure_from_dict(ms[k])],
          last_review |-> None,
          reviewer |-> "",
          documentation_note |-> Get(h, "documentation_note", "") ]

\* hazard_from_dict with a missing risk_value computed from prob and sev
hazard_from_dict_recomputed(h) ==
    LET ms == Get(h, "additional_measures", <<>>)
    IN  [ id |-> h["id"], area |-> h["area"], activity |-> h["activity"],
          hazard |-> h["hazard"],
          sources |-> Get(h, "sources", <<>>),
          existing_controls |-> Get(h, "existing_controls", Get(h, "existing", <<>>)),
          prob |-> Get(h, "prob", 3), sev |-> Get(h, "sev", 3),
          risk_value |-> Get(h, "risk_value", Get(h, "prob", 3) * Get(h, "sev", 3)),
          risk_level |-> Get(h, "risk_level", "mittel"),
          additional_measures |-> [k \in 1..Len(ms) |-> measure_from_dict(ms[k])],
          last_review |-> GetOpt(h, "last_review", None),
          reviewer |-> Get(h, "reviewer", ""),
          documentation_note |-> Get(h, "documentation_note", "") ]

\* hazard_from_dict with the legacy key read first
hazard_from_dict_legacy_first(h) ==
    LET ms == Get(h, "additional_measures", <<>>)
    IN  [ id |-> h["id"], area |-> h["area"], activity |-> h["activity"],
          hazard |-> h["hazard"],
          sources |-> Get(h, "sources", <<>>),
          existing_controls |-> Get(h, "existing", Get(h, "existing_controls", <<>>)),
          prob |-> Get(h, "prob", 3), sev |-> Get(h, "sev", 3),
          risk_value |-> Get(h, "risk_value", 9),
          risk_level |-> Get(h, "risk_level", "mittel"),
          additional_measures |-> [k \in 1..Len(ms) |-> measure_from_dict(ms[k])],
          last_review |-> GetOpt(h, "last_review", None),
          reviewer |-> Get(h, "reviewer", ""),
          documentation_note |-> Get(h, "documentation_note", "") ]

\* Hazard(...), lines 316-324
hazard_from_dict(h) ==
    LET ms == Get(h, "additional_measures", <<>>)
    IN  [ id |-> h["id"], area |-> h["area"], activity |-> h["activity"],
          hazard |-> h["hazard"],
          sources |-> Get(h, "sources", <<>>),
          existing_controls |-> Get(h, "existing_controls", Get(h, "existing", <<>>)),
          prob |-> Get(h, "prob", 3), sev |-> Get(h, "sev", 3),
          risk_value |-> Get(h, "risk_value", 9),
          risk_level |-> Get(h, "risk_level", "mittel"),
          additional_measures |-> [k \in 1..Len(ms) |-> measure_from_dict(ms[k])],
          last_review |-> GetOpt(h, "last_review", None),
          reviewer |-> Get(h, "reviewer", ""),
          documentation_note |-> Get(h, "documentation_note", "") ]

\* the exception building the hazard h ends in, "" when none: line 315 builds
\* the measures before lines 316-324 read the hazard's keys
hazard_raises(h) ==
    IF \E j \in 1..Len(Get(h, "additional_measures", <<>>)) :
          ~MeasureAccepts(Get(h, "additional_measures", <<>>)[j])
    THEN "TypeError"
    ELSE IF ~HazardAccepts(h) THEN "KeyError" ELSE ""

\* the loop of line 314 ends at the first of the hazards bad that cannot be built
first_raise(hs, bad) == IF bad = {} THEN "" ELSE hazard_raises(hs[MinOf(bad)])

hazards_raise(hs) == first_raise(hs, {k \in 1..Len(hs) : hazard_raises(hs[k]) # ""})

\* the exception from_json(s) ends in, "" when it returns
from_json_raises(s) ==
    IF ~s.valid THEN "JSONDecodeError" ELSE hazards_raise(Get(s.data, "hazards", <<>>))

\* the Assessment from_json(s) returns when it does not raise
from_json_value(s) ==
    LET data == s.data
        hs   == Get(data, "hazards", <<>>)
    IN  [ company |-> Get(data, "company", ""), location |-> Get(data, "location", ""),
          created_at |-> Get(data, "created_at", ""),
          created_by |-> Get(data, "created_by", ""),
          industry |-> Get(data, "industry", "Hotel/Gastgewerbe"),
          scope_note |-> Get(data, "scope_note", ""),
          risk_matrix_thresholds |->
              Get(data, "risk_matrix_thresholds", [thresholds |-> <<6, 12, 16>>]),
          hazards |-> [k \in 1..Len(hs) |-> hazard_from_dict(hs[k])],
          measures_plan_note |-> Get(data, "measures_plan_note", ""),
          documentation_note |-> Get(data, "documentation_note", ""),
          next_review_hint |-> Get(data, "next_review_hint", "") ]

from_json_ends(s, exc) ==
    IF exc = "" THEN [ok |-> TRUE, value |-> from_json_value(s)]
    ELSE [ok |-> FALSE, exc |-> exc]

\* from_json(s): [ok |-> TRUE, value |-> the Assessment] or [ok |-> FALSE, exc |-> ...]
from_json(s) == from_json_ends(s, from_json_raises(s))

----------------------------------------------------------------------------
(* Sample records: every field takes a value that differs from its default *)
(* and from the other fields' values, and every Optional field is None in  *)
(* one sample and set in another.                                          *)

BaseMeasure ==
    [ title |-> "Spritzschutz", stop_level |-> STOP_LEVELS[2], responsible |-> "Kueche",
      due_date |-> "2025-01-31", status |-> "wirksam", notes |-> "geprueft" ]

MeasureSamples == {BaseMeasure, Measure("Rettungsplan", STOP_LEVELS[3])}

MeasureSeqs == SeqsUpTo(MeasureSamples, MaxMeasures)

BaseHazard ==
    [ id |-> "HZ-1", area |-> "Kueche", activity |-> "Kochen", hazard |-> <<"a", ",", "a">>,
      sources |-> <<"Herde", "Kessel">>, existing_controls |-> <<"Hitzeschutz">>,
      prob |-> 2, sev |-> 4, risk_value |-> 8, risk_level |-> "hoch",
      additional_measures |-> <<BaseMeasure>>, last_review |-> "2025-02-01",
      reviewer |-> "SiFa", documentation_note |-> "Doku" ]

HazardSamples ==
    {Hazard("HZ-2", "Lager", "Auspacken", <<"a">>, <<>>, <<>>)}
        \cup {[BaseHazard EXCEPT !.additional_measures = ms] : ms \in MeasureSeqs}

HazardSeqs == SeqsUpTo(HazardSamples, MaxHazards)

BaseAssessment ==
    [ company |-> "Musterbetrieb GmbH", location |-> "Beispielstadt",
      created_at |-> "2025-01-01", created_by |-> "HSE/SiFa", industry |-> "Brauerei",
      scope_note |-> "Scope", risk_matrix_thresholds |-> [thresholds |-> <<5, 10, 15>>],
      hazards |-> <<BaseHazard>>, measures_plan_note |-> "Plan",
      documentation_note |-> "Ablage", next_review_hint |-> "jaehrlich" ]

AssessmentSamples ==
    {[top EXCEPT !.hazards = hs] : top \in {BaseAssessment, Assessment("", "", "", "")},
                                   hs \in HazardSeqs}

\* d without the keys K
Without(d, K) == [k \in (DOMAIN d) \ K |-> d[k]]

\* d with key k set to v
With(d, k, v) == [j \in (DOMAIN d) \cup {k} |-> IF j = k THEN v ELSE d[j]]

SmallSubsets(S) == {K \in SUBSET S : Cardinality(K) <= MaxDropped}

BaseDoc == as_json(BaseAssessment).data

BaseHazardDoc == BaseDoc.hazards[1]

BaseMeasureDoc == BaseHazardDoc.additional_measures[1]

DocWithHazard(h) == [valid |-> TRUE, data |-> With(BaseDoc, "hazards", <<h>>)]

\* JSON texts for from_json: the dump of BaseAssessment with up to MaxDropped keys
\* missing from the assessment, from its hazard or from the hazard's measure; legacy
\* and unknown keys; several hazards of which one is faulty; and a text that is not JSON
Docs ==
    {[valid |-> FALSE]}
        \cup {[valid |-> TRUE, data |-> Without(BaseDoc, K)] : K \in SmallSubsets(DOMAIN BaseDoc)}
        \cup {DocWithHazard(Without(BaseHazardDoc, K)) : K \in SmallSubsets(DOMAIN BaseHazardDoc)}
        \cup {DocWithHazard(With(BaseHazardDoc, "additional_measures",
                                 <<Without(BaseMeasureDoc, K)>>)) :
                 K \in SmallSubsets(DOMAIN BaseMeasureDoc)}
        \cup {DocWithHazard(With(BaseHazardDoc, "additional_measures",
                                 <<With(BaseMeasureDoc, "owner", "x")>>)),
              DocWithHazard(With(Without(BaseHazardDoc, {"existing_controls"}),
                                 "existing", <<"Abzug">>)),
              DocWithHazard(With(BaseHazardDoc, "existing", <<"Abzug">>)),
              [valid |-> TRUE,
               data |-> With(BaseDoc, "hazards",
                             <<BaseHazardDoc, Without(BaseHazardDoc, {"id"})>>)],
              [valid |-> TRUE,
               data |-> With(BaseDoc, "hazards",
                             <<Without(BaseHazardDoc, {"area"}),
                               With(BaseHazardDoc, "additional_measures",
                                    <<Without(BaseMeasureDoc, {"title"})>>)>>)]}

RiskArgs ==
    [prob : Ratings, sev : Ratings, thresholds : AscendingTriples]

----------------------------------------------------------------------------
(* new_id, App.py 104-106: the id is read off the clock (the second and the *)
(* last four digits of the microsecond), so it is whatever the clock gives  *)
(* at the call; two calls at readings that agree in these digits return the *)
(* same id.                                                                 *)

Ids == {"HZ-1", "HZ-2"}

\* the ids the successive calls of new_id in one script run return
IdSeqs == [1..MaxHazards -> Ids]

----------------------------------------------------------------------------
(* slug and template_item_key, App.py 334-337 and 691-692.  A text is a     *)
(* sequence of tokens as for split_hazard_text; a name such as "Kochen" is  *)
(* one token of letters.                                                    *)

\* the characters [a-zA-Z0-9_-] of line 336: every token but blank, comma, slash, &
SlugKeeps(c) == c \notin {" ", ",", "/", "&"}

RECURSIVE SlugSub(_, _)
\* re.sub(r"[^a-zA-Z0-9_-]+", "_", s) from position i on: a run of other
\* characters becomes one underscore
SlugSub(s, i) ==
    IF i > Len(s) THEN <<>>
    ELSE IF SlugKeeps(s[i]) THEN <<s[i]>> \o SlugSub(s, i + 1)
    ELSE IF i > 1 /\ ~SlugKeeps(s[i - 1]) THEN SlugSub(s, i + 1)
    ELSE <<"_">> \o SlugSub(s, i + 1)

\* the most characters slug returns, line 337
SlugLen == 80

\* s[:80], line 337
slug_cut(s) == SubSeq(s, 1, IF Len(s) < SlugLen THEN Len(s) ELSE SlugLen)

RECURSIVE Flat(_)
\* the texts of a list written one after the other
Flat(texts) == IF texts = <<>> THEN <<>> ELSE texts[1] \o Flat(Tail(texts))

\* slug(*parts), lines 334-337: the parts joined by underscores, substituted, cut
slug(parts) == slug_cut(SlugSub(Flat(Join(<<"_">>, parts)), 1))

\* a sector name as text
NameText(name) ==
    IF name = "Hotel/Gastgewerbe" THEN <<"Hotel", "/", "Gastgewerbe">> ELSE <<name>>

\* template_item_key, lines 691-692
template_item_key(industry, area, item) ==
    slug(<<NameText(industry), <<area>>, <<item.activity>>, item.hazard>>)

----------------------------------------------------------------------------
(* The template library, App.py 360-625.  INDUSTRY_LIBRARY maps a sector to *)
(* its areas and each area to its items; the model keeps two sectors with   *)
(* one area and one item each: an item whose hazard text names two hazards  *)
(* and has a measure given as a plain string, and an item with one hazard.  *)

\* M(title, stop), line 360
M(title, stop) == [is_dict |-> TRUE, title |-> title, stop_level |-> stop]

\* a measure given as a plain string (lines 400, 419)
PlainMeasure(text) == [is_dict |-> FALSE, text |-> text]

LIB_HOTEL ==
    << [ area  |-> "Kueche",
         items |-> << [ activity |-> "Kochen",
                        hazard |-> <<"a", ",", " ", "a", "a">>,
                        sources |-> <<"Herde">>, existing |-> <<"Hitzeschutz">>,
                        measures |-> << M("Spritzschutz", "T (Technisch)"),
                                        PlainMeasure("Rettungsplan") >> ] >> ] >>

LIB_BAECKEREI ==
    << [ area  |-> "Produktion",
         items |-> << [ activity |-> "Backen",
                        hazard |-> <<"a", "a", "a">>,
                        sources |-> <<"Ofen">>, existing |-> <<"Hitzeschutz">>,
                        measures |-> << M("Backwagen fixieren", "O (Organisatorisch)") >> ] >> ] >>

Sectors == {"Hotel/Gastgewerbe", "Baeckerei"}

\* INDUSTRY_LIBRARY.get(sector, {})
INDUSTRY_LIBRARY(s) ==
    IF s = "Hotel/Gastgewerbe" THEN LIB_HOTEL
    ELSE IF s = "Baeckerei" THEN LIB_BAECKEREI
    ELSE <<>>

DEFAULT_STOP == "O (Organisatorisch)"

\* str.strip() on the titles of the library: a title written with blanks around
\* it, and a title of blanks alone
title_strip(s) ==
    IF s = " Rettungsplan " THEN "Rettungsplan"
    ELSE IF s = " " THEN ""
    ELSE s

\* normalize_measure, lines 647-658; None when the entry gives no measure
normalize_measure(m) ==
    IF m.is_dict
    THEN [Measure(title_strip(m.title), m.stop_level) EXCEPT !.notes = ""]
    ELSE IF title_strip(m.text) # "" THEN Measure(title_strip(m.text), DEFAULT_STOP)
    ELSE None

\* "mm and mm.title", line 680
MeasureKept(m) == IF m.is_dict THEN title_strip(m.title) # "" ELSE title_strip(m.text) # ""

RECURSIVE MeasuresOf(_)
\* the loop of lines 678-681 over item["measures"]
MeasuresOf(ms) ==
    IF ms = <<>> THEN <<>>
    ELSE IF MeasureKept(ms[1])
         THEN <<normalize_measure(ms[1])>> \o MeasuresOf(Tail(ms))
         ELSE MeasuresOf(Tail(ms))

\* the loop of lines 669-682 over hazards_list, the ids still to be given
HazardsOfList(area, item, hazards_list) ==
    [k \in 1..Len(hazards_list) |->
        [Hazard("", area, item.activity, hazards_list[k], item.sources, item.existing)
            EXCEPT !.additional_measures = MeasuresOf(item.measures)]]

\* the hazards of one item with the first piece of its text alone
HazardsOfItem_first_piece(area, item, split_multi) ==
    HazardsOfList(area, item,
                  IF split_multi /\ split_hazard_text(item.hazard) # <<>>
                  THEN <<split_hazard_text(item.hazard)[1]>>
                  ELSE IF split_multi THEN <<>> ELSE <<item.hazard>>)

\* the hazards of one item, lines 666-682
HazardsOfItem(area, item, split_multi) ==
    HazardsOfList(area, item,
                  IF split_multi THEN split_hazard_text(item.hazard) ELSE <<item.hazard>>)

\* selected_keys=None
NoKeys == <<>>

\* selected_keys=keys
Keys(keys) == <<keys>>

\* lines 662-665 with the test "if selected_keys and key not in selected_keys":
\* an empty list skips nothing
Taken_unless_empty(industry, area, item, selected_keys) ==
    \/ selected_keys = NoKeys
    \/ selected_keys[1] = <<>>
    \/ template_item_key(industry, area, item) \in Range(selected_keys[1])

\* lines 662-665: the item is not skipped
Taken(industry, area, item, selected_keys) ==
    \/ selected_keys = NoKeys
    \/ template_item_key(industry, area, item) \in Range(selected_keys[1])

RECURSIVE HazardsOfItems(_, _, _, _, _)
\* the loop of line 661 over the items of one area
HazardsOfItems(industry, area, items, selected_keys, split_multi) ==
    IF items = <<>> THEN <<>>
    ELSE (IF Taken(industry, area, items[1], selected_keys)
          THEN HazardsOfItem(area, items[1], split_multi) ELSE <<>>)
         \o HazardsOfItems(industry, area, Tail(items), selected_keys, split_multi)

RECURSIVE HazardsOfTemplate(_, _, _, _)
\* the loop of line 660 over the areas of the template
HazardsOfTemplate(industry, template, selected_keys, split_multi) ==
    IF template = <<>> THEN <<>>
    ELSE HazardsOfItems(industry, template[1].area, template[1].items, selected_keys,
                        split_multi)
         \o HazardsOfTemplate(industry, Tail(template), selected_keys, split_multi)

\* new_id() at line 671: the k-th hazard created gets ids[k]
WithIds(new, ids) == [k \in 1..Len(new) |-> [new[k] EXCEPT !.id = ids[k]]]

\* the new hazards put in front of the list
add_template_items_in_front(a, template, selected_keys, industry_name, split_multi, ids) ==
    [a EXCEPT !.hazards =
        WithIds(HazardsOfTemplate(IF industry_name = None THEN a.industry
                                  ELSE industry_name,
                                  template, selected_keys, split_multi), ids) \o @]

\* add_template_items, lines 631-682: the assessment with the hazards of the taken
\* items appended; industry_name is None or the name, split_multi the option
add_template_items(a, template, selected_keys, industry_name, split_multi, ids) ==
    [a EXCEPT !.hazards =
        @ \o WithIds(HazardsOfTemplate(IF industry_name = None THEN a.industry
                                       ELSE industry_name,
                                       template, selected_keys, split_multi), ids)]

\* preload_industry, lines 684-689; split_multi is the option line 642 reads
preload_industry(a, industry_name, replace, split_multi, ids) ==
    add_template_items([a EXCEPT !.industry = industry_name,
                                 !.hazards = IF replace THEN <<>> ELSE @],
                       INDUSTRY_LIBRARY(industry_name), NoKeys, industry_name, split_multi,
                       ids)

----------------------------------------------------------------------------
(* The script, App.py 706-1105.  Streamlit runs it from top to bottom once  *)
(* for every interaction; r is the session as the run has it so far and ev  *)
(* the interaction that started the run.  r.exit is "" while the run goes   *)
(* on, "rerun" after st.rerun(), "stop" after st.stop(), and the exception  *)
(* after a raise.  A widget that is not touched returns the value it holds; *)
(* a widget whose arguments differ from those of the run before is a new    *)
(* widget and returns its default.                                          *)

Today == "today"

Event(kind, value, ids) == [kind |-> kind, value |-> value, ids |-> ids]

ErrLow == "StreamlitAPIException thr_low"

ErrMid == "StreamlitAPIException thr_mid"

ErrHigh == "StreamlitAPIException thr_high"

ErrSlider == "StreamlitAPIException slider"

ThresholdErrors == {ErrLow, ErrMid, ErrHigh}

ImportErrors == {"JSONDecodeError", "TypeError", "KeyError"}

\* the label of a hazard in the selectboxes of tabs 3, 4 and 6
Label(h) == <<h.id, h.area, h.activity, h.hazard>>

Labels(hs) == [k \in 1..Len(hs) |-> Label(hs[k])]

\* list.index(x)
IndexOf(seq, x) == MinOf({k \in 1..Len(seq) : seq[k] = x})

\* a load that never empties assess.hazards
LoadTemplate_keeping(r, sec, replace, ids) ==
    [r EXCEPT !.assess =
        [add_template_items(r.assess, INDUSTRY_LIBRARY(sec), NoKeys, sec, r.opt_split, ids)
            EXCEPT !.industry = sec]]

\* assess.hazards = [] when replace; add_template_items(...); assess.industry = sec
LoadTemplate(r, sec, replace, ids) ==
    [r EXCEPT !.assess =
        [add_template_items([r.assess EXCEPT !.hazards = IF replace THEN <<>> ELSE @],
                            INDUSTRY_LIBRARY(sec), NoKeys, sec, r.opt_split, ids)
            EXCEPT !.industry = sec]]

\* lines 739-755: the selectbox sel_industry and the checkbox
\* opt_split_multi_hazards
sidebar_options(r, ev) ==
    [r EXCEPT !.sector = IF ev.kind = "sel_industry" THEN ev.value ELSE @,
              !.opt_split = IF ev.kind = "opt_split_multi_hazards" THEN ~@ ELSE @]

\* an automatic load that does not store the sector it has loaded
sidebar_autoload_unrecorded(r, ev) ==
    IF r.last_sector # r.sector
    THEN [LoadTemplate(r, r.sector, TRUE, ev.ids) EXCEPT !.exit = "rerun"]
    ELSE r

\* lines 760-769: the automatic load
sidebar_autoload(r, ev) ==
    IF r.last_sector # r.sector
    THEN [LoadTemplate(r, r.sector, TRUE, ev.ids)
             EXCEPT !.last_sector = r.sector, !.exit = "rerun"]
    ELSE r

\* lines 739-769
sidebar_sector(r, ev) == sidebar_autoload(sidebar_options(r, ev), ev)

\* lines 771-791: the buttons btn_load_replace_sidebar and btn_load_append_sidebar
sidebar_load(r, ev) ==
    IF r.exit # "" THEN r
    ELSE IF ev.kind = "btn_load_replace_sidebar"
         THEN [LoadTemplate(r, r.sector, TRUE, ev.ids) EXCEPT !.checks = {},
                                                              !.exit = "rerun"]
    ELSE IF ev.kind = "btn_load_append_sidebar"
         THEN [LoadTemplate(r, r.sector, FALSE, ev.ids) EXCEPT !.exit = "rerun"]
    ELSE r

\* assess.risk_matrix_thresholds.get("thresholds", [6, 12, 16])
thresholds_of(a) == Get(a.risk_matrix_thresholds, "thresholds", <<6, 12, 16>>)

\* lines 793-799: the three number inputs.  st.number_input raises when its
\* value argument lies outside min_value..max_value; thr_mid and thr_high are new
\* widgets when the input above them changed their min_value
sidebar_thresholds(r, ev) ==
    IF r.exit # "" THEN r
    ELSE
    LET thr  == thresholds_of(r.assess)
        low  == IF ev.kind = "thr_low" THEN ev.value ELSE r.thr_w[1]
        mid  == IF ev.kind = "thr_mid" THEN ev.value
                ELSE IF low # r.thr_w[1] THEN thr[2] ELSE r.thr_w[2]
        high == IF ev.kind = "thr_high" THEN ev.value
                ELSE IF mid # r.thr_w[2] THEN thr[3] ELSE r.thr_w[3]
    IN  IF thr[1] \notin 2..10 THEN [r EXCEPT !.exit = ErrLow]
        ELSE IF thr[2] \notin (low + 1)..16
             THEN [r EXCEPT !.thr_w = <<low, @[2], @[3]>>, !.exit = ErrMid]
        ELSE IF thr[3] \notin (mid + 1)..24
             THEN [r EXCEPT !.thr_w = <<low, mid, @[3]>>, !.exit = ErrHigh]
        ELSE [r EXCEPT !.thr_w = <<low, mid, high>>,
                       !.assess.risk_matrix_thresholds =
                           With(@, "thresholds", <<low, mid, high>>)]

\* lines 803-806: the button btn_json_dump stores as_json(assess)
sidebar_export(r, ev) ==
    IF r.exit # "" THEN r
    ELSE IF ev.kind = "btn_json_dump" THEN [r EXCEPT !.json_blob = <<as_json(r.assess)>>]
    ELSE r

\* line 805: the data given to the download button btn_dl_json
json_offered(r) == IF r.json_blob # <<>> THEN r.json_blob[1] ELSE as_json(r.assess)

\* the default of the selectbox sel_industry, lines 741-743
default_sector(a) == IF a.industry \in Sectors THEN a.industry ELSE "Hotel/Gastgewerbe"

\* lines 817-818
industry_set(a) ==
    IF a.industry \in {"", None, Null} THEN [a EXCEPT !.industry = "Hotel/Gastgewerbe"]
    ELSE a

\* line 816 with a from_json that assigns what it has read as it goes
assigned_piecewise(a, j) ==
    IF j.ok THEN [exc |-> "", assessment |-> industry_set(j.value)]
    ELSE [exc |-> j.exc, assessment |-> [a EXCEPT !.hazards = <<>>]]

\* lines 815-818 with that from_json
uploaded_piecewise(a, content) == assigned_piecewise(a, from_json(content))

\* line 816: from_json raises before st.session_state.assessment is assigned
assigned(a, j) ==
    IF j.ok THEN [exc |-> "", assessment |-> industry_set(j.value)]
    ELSE [exc |-> j.exc, assessment |-> a]

\* lines 815-818: what st.session_state.assessment is after them, and the
\* exception they end in ("" when none)
uploaded(a, content) == assigned(a, from_json(content))

\* lines 814-820, u being what lines 815-818 end in.  After an import the value
\* arguments of sel_industry and of the number inputs are those of the imported
\* assessment, so these widgets start afresh
imported(r, u) ==
    IF u.exc # ""
    THEN [r EXCEPT !.assess = u.assessment, !.exit = u.exc]
    ELSE [r EXCEPT !.assess = u.assessment,
                   !.thr_w = thresholds_of(u.assessment),
                   !.sector = default_sector(u.assessment),
                   !.exit = "rerun"]

\* lines 811-820, the uploader holding r.upload: <<>> or <<the file>>
sidebar_import(r, ev) ==
    IF r.exit # "" \/ r.upload = <<>> THEN r
    ELSE imported(r, uploaded(r.assess, r.upload[1]))

RECURSIVE ItemKeysOf(_, _)
\* the keys of iter_template_items(industry), lines 694-700, from the areas lib on
ItemKeysOf(industry, lib) ==
    IF lib = <<>> THEN {}
    ELSE {template_item_key(industry, lib[1].area, lib[1].items[j]) :
             j \in 1..Len(lib[1].items)}
         \cup ItemKeysOf(industry, Tail(lib))

\* lines 847-860: every checkbox shown writes its value to template_checks; a
\* checkbox that is not touched returns its value argument, the entry it wrote
checked(r, ev) ==
    IF ev.kind = "chk" /\ ev.value \in ItemKeysOf(r.sector, INDUSTRY_LIBRARY(r.sector))
    THEN (IF ev.value \in r.checks THEN r.checks \ {ev.value} ELSE r.checks \cup {ev.value})
    ELSE r.checks

RECURSIVE ListOf(_)
\* the elements of a set as a list
ListOf(S) ==
    IF S = {} THEN <<>>
    ELSE LET k == CHOOSE x \in S : TRUE IN <<k>> \o ListOf(S \ {k})

\* lines 880-891 with selected as lines 881 and 886 compute it
apply_selected(r, ev, selected) ==
    IF ev.kind = "btn_apply_append"
    THEN [r EXCEPT !.assess = add_template_items(@, INDUSTRY_LIBRARY(r.sector), Keys(selected),
                                                 r.sector, r.opt_split, ev.ids),
                   !.said = <<Len(selected)>>]
    ELSE [r EXCEPT !.assess =
             [add_template_items([@ EXCEPT !.hazards = <<>>], INDUSTRY_LIBRARY(r.sector),
                                 Keys(selected), r.sector, r.opt_split, ev.ids)
                 EXCEPT !.industry = r.sector],
                   !.said = <<Len(selected)>>,
                   !.exit = "rerun"]

\* lines 829-902 with template_checks as the checkboxes left it; no filter is
\* set, so every item of the sector is shown
tab0_buttons(r, ev) ==
    IF ev.kind = "btn_mark_all"
    THEN [r EXCEPT !.checks = @ \cup ItemKeysOf(r.sector, INDUSTRY_LIBRARY(r.sector)),
                   !.exit = "rerun"]
    ELSE IF ev.kind = "btn_unmark_all"
    THEN [r EXCEPT !.checks = @ \ ItemKeysOf(r.sector, INDUSTRY_LIBRARY(r.sector)),
                   !.exit = "rerun"]
    ELSE IF ev.kind \in {"btn_apply_append", "btn_apply_replace"}
    THEN apply_selected(r, ev, ListOf(r.checks))
    ELSE IF ev.kind = "btn_full_template_replace"
    THEN [LoadTemplate(r, r.sector, TRUE, ev.ids) EXCEPT !.checks = {}, !.exit = "rerun"]
    ELSE r

\* lines 829-902
tab0(r, ev) ==
    IF r.exit # "" THEN r
    ELSE tab0_buttons([r EXCEPT !.checks = checked(r, ev)], ev)

\* lines 905-911: the selectbox assess_industry
tab1(r, ev) ==
    IF r.exit # "" THEN r
    ELSE [r EXCEPT !.assess.industry = default_sector(r.assess)]

\* [s.strip() for s in text.split(";") if s.strip()], the text given by its pieces
split_semicolon(pieces) == SelectSeq(pieces, LAMBDA x : x \notin {"", " "})

\* lines 953-958: the hazards the button btn_add_hazard appends
added_list(inp, hazards_list, ids) ==
    [k \in 1..Len(hazards_list) |->
        Hazard(ids[k], inp.area, inp.activity, hazards_list[k],
               split_semicolon(inp.sources), split_semicolon(inp.existing))]

\* lines 951-959 with hazards_list as line 952 computes it
added_hazards(inp, split_multi, ids) ==
    added_list(inp, IF split_multi THEN split_hazard_text(inp.hazard) ELSE <<inp.hazard>>,
               ids)

\* list(INDUSTRY_LIBRARY.get(industry, {}).keys())
library_areas(industry) ==
    {INDUSTRY_LIBRARY(industry)[k].area : k \in 1..Len(INDUSTRY_LIBRARY(industry))}

\* lines 968-976: the edit widgets write the selected hazard back
edited(a, hz) ==
    [hz EXCEPT !.area = IF @ \in library_areas(a.industry) \cup {"Sonstiges"}
                        THEN @ ELSE "Sonstiges",
               !.sources = split_semicolon(@),
               !.existing_controls = split_semicolon(@)]

\* lines 964-980 with sel_id chosen and the button btn_delete pressed
delete_hazard(a, sel_id) ==
    LET k  == MinOf({j \in 1..Len(a.hazards) : a.hazards[j].id = sel_id})
        a1 == [a EXCEPT !.hazards[k] = edited(a, @)]
    IN  [a1 EXCEPT !.hazards = SelectSeq(@, LAMBDA h : h.id # sel_id)]

\* lines 919-980
tab2(r, ev) ==
    IF r.exit # "" THEN r
    ELSE IF r.assess.hazards = <<>> /\ ev.kind = "btn_fallback_load_from_tab2"
         THEN [LoadTemplate(r, r.sector, TRUE, ev.ids) EXCEPT !.exit = "rerun"]
    ELSE IF ev.kind = "btn_add_hazard"
         THEN [r EXCEPT !.assess.hazards = @ \o added_hazards(ev.value, r.opt_split, ev.ids),
                        !.said = <<Len(added_hazards(ev.value, r.opt_split, ev.ids))>>]
    ELSE IF ev.kind = "btn_delete"
         THEN [r EXCEPT !.assess = delete_hazard(@, ev.value), !.exit = "rerun"]
    ELSE r

\* the option the selectbox sel_hazard_assess returns; labels0 are its options in
\* the run before
selected3(r, ev, labels0) ==
    IF ev.kind = "sel_hazard_assess" THEN ev.value
    ELSE IF Labels(r.assess.hazards) # labels0 THEN 1 ELSE r.sel3

\* what a slider returns: the value it is moved to, else its value argument
slider(ev, name, value) == IF ev.kind = name THEN ev.value ELSE value

\* lines 1007-1008
rated(hz, prob, sev, risk) ==
    [hz EXCEPT !.prob = prob, !.sev = sev, !.risk_value = risk[1], !.risk_level = risk[2]]

\* lines 1004-1008 for the hazard hz.  st.slider raises when its value argument
\* lies outside 1..5
assessed(hz, ev, thresholds) ==
    rated(hz, slider(ev, "prob", hz.prob), slider(ev, "sev", hz.sev),
          compute_risk(slider(ev, "prob", hz.prob), slider(ev, "sev", hz.sev), thresholds))

\* lines 1002-1008, sel being the option chosen and k the hazard line 1003 finds
assess_hazard(r, ev, sel, k) ==
    IF r.assess.hazards[k].prob \notin 1..5 \/ r.assess.hazards[k].sev \notin 1..5
    THEN [r EXCEPT !.sel3 = sel, !.exit = ErrSlider]
    ELSE [r EXCEPT !.sel3 = sel,
                   !.assess.hazards[k] =
                       assessed(@, ev, r.assess.risk_matrix_thresholds.thresholds)]

\* lines 1002-1003: the first hazard that carries the label chosen
assess_selected(r, ev, sel) ==
    assess_hazard(r, ev, sel,
                  IndexOf(Labels(r.assess.hazards), Label(r.assess.hazards[sel])))

\* lines 983-1017
tab3(r, ev, labels0) ==
    IF r.exit # "" THEN r
    ELSE IF r.assess.hazards = <<>>
         THEN IF ev.kind = "btn_fallback_load_from_tab3"
              THEN [LoadTemplate(r, r.sector, TRUE, ev.ids) EXCEPT !.exit = "rerun"]
              ELSE [r EXCEPT !.exit = "stop"]
    ELSE assess_selected(r, ev, selected3(r, ev, labels0))

\* line 1070: the selectbox stat_<id>_<i>
status_shown(m) ==
    IF \E i \in 1..Len(STATUS_LIST) : STATUS_LIST[i] = m.status THEN m.status
    ELSE STATUS_LIST[1]

\* lines 1059-1074, the selectbox sel_hazard_review at its first option
tab6(r, ev) ==
    IF r.exit # "" \/ r.assess.hazards = <<>> THEN r
    ELSE LET hz == r.assess.hazards[1]
             ms == hz.additional_measures
         IN  [r EXCEPT !.assess.hazards[1] =
                 [hz EXCEPT !.additional_measures =
                                [i \in 1..Len(ms) |-> [ms[i] EXCEPT !.status = status_shown(ms[i])]],
                            !.last_review = Today]]

\* the selectbox sel_hazard_assess starts afresh when its options changed
ended(r, labels0) ==
    [r EXCEPT !.sel3 = IF Labels(r.assess.hazards) # labels0 THEN 1 ELSE @]

\* the session as the run finds it: the uploader holds what the user gave it
started(s, ev) ==
    [s EXCEPT !.upload = IF ev.kind = "upload" THEN <<ev.value>>
                         ELSE IF ev.kind = "clear_upload" THEN <<>> ELSE @,
              !.said = <<>>]

\* one run of the script: the sidebar, then the tabs
ScriptRun(s, ev) ==
    CHOOSE r \in
        { ended(r8, labels0) :
            labels0 \in {Labels(s.assess.hazards)},
            r8 \in { tab6(r7, ev) :
            r7 \in { tab3(r6, ev, Labels(s.assess.hazards)) :
            r6 \in { tab2(r5, ev) :
            r5 \in { tab1(r45, ev) :
            r45 \in { tab0(r4, ev) :
            r4 \in { sidebar_import(r35, ev) :
            r35 \in { sidebar_export(r3, ev) :
            r3 \in { sidebar_thresholds(r2, ev) :
            r2 \in { sidebar_load(r1, ev) :
            r1 \in { sidebar_sector(r0, ev) :
            r0 \in { started(s, ev) } } } } } } } } } } } } : TRUE

----------------------------------------------------------------------------
(* The session: one action for each interaction, each a whole script run *)

\* the ids given to runs that are known to create nothing
NoIds == [k \in 1..MaxHazards |-> "HZ-1"]

\* the values typed into the number inputs of the risk matrix
ThresholdInputs == {6, 10, 12, 16}

\* the values the sliders of tab 3 are moved to
SliderInputs == {5}

\* what is typed into the form of tab 2
ManualInputs ==
    { [ area |-> "Sonstiges", activity |-> "Reinigen", hazard |-> <<"a", "a", "a", "a">>,
        sources |-> <<"Eimer", " ", "Leiter">>, existing |-> <<>> ] }

\* the form of tab 2 with the text given for the hazard
FormInput(text) ==
    [ area |-> "Sonstiges", activity |-> "Reinigen", hazard |-> text,
      sources |-> <<"Eimer">>, existing |-> <<>> ]

FormInputs == { FormInput(<<>>), FormInput(<<" ">>), FormInput(<<"a", ",", "a", "a">>) }

UploadHazard(id, activity) ==
    [ id |-> id, area |-> "Lager", activity |-> activity, hazard |-> <<"a">>,
      prob |-> 5, sev |-> 5 ]

\* a text that is not JSON
DocInvalid == [valid |-> FALSE]

\* the second hazard has no id
DocNoId ==
    [ valid |-> TRUE,
      data |-> [ hazards |-> << UploadHazard("HZ-2", "Auspacken"),
                               Without(UploadHazard("HZ-2", "Einlagern"), {"id"}) >> ] ]

\* the measure of the second hazard has a field Measure does not know
DocUnknownField ==
    [ valid |-> TRUE,
      data |-> [ hazards |-> << UploadHazard("HZ-2", "Auspacken"),
                               With(UploadHazard("HZ-2", "Einlagern"), "additional_measures",
                                    << [ title |-> "Spritzschutz", stop_level |-> "T (Technisch)",
                                         owner |-> "Kueche" ] >>) >> ] ]

\* thresholds in falling order
DocFalling ==
    [ valid |-> TRUE,
      data |-> [ risk_matrix_thresholds |-> [thresholds |-> <<16, 12, 6>>] ] ]

\* two hazards under one id, rated 5 and 5 with no risk_value written
DocTwins ==
    [ valid |-> TRUE,
      data |-> [ hazards |-> << UploadHazard("HZ-1", "Auspacken"),
                               UploadHazard("HZ-1", "Einlagern") >> ] ]

\* a hazard rated outside 1..5 whose measure carries labels of another scheme
DocUnchecked ==
    [ valid |-> TRUE,
      data |-> [ hazards |-> << With(With(UploadHazard("HZ-2", "Auspacken"), "prob", 7),
                                     "additional_measures",
                                     << [ title |-> "Spritzschutz", stop_level |-> "technisch",
                                          status |-> "geplant" ] >>) >> ] ]

\* the files given to the uploader
SessionDocs == {DocInvalid, DocNoId, DocUnknownField, DocFalling, DocTwins, DocUnchecked}

Session ==
    [ assess |-> assess, thr_w |-> thr_w, sector |-> sector, last_sector |-> last_sector,
      opt_split |-> opt_split, upload |-> upload, sel3 |-> sel3, checks |-> checks,
      said |-> said, json_blob |-> json_blob,
      exit |-> "" ]

\* lines 709-715 and 751-752, 760-761: the session as the first run sets it up
FirstSession(ids) ==
    [ assess |-> preload_industry(Assessment("Musterbetrieb GmbH", "Beispielstadt",
                                             Today, "HSE/SiFa"),
                                  "Hotel/Gastgewerbe", TRUE, TRUE, ids),
      thr_w |-> <<6, 12, 16>>, sector |-> "Hotel/Gastgewerbe",
      last_sector |-> "Hotel/Gastgewerbe", opt_split |-> TRUE, upload |-> <<>>,
      sel3 |-> 1, checks |-> {}, said |-> <<>>, json_blob |-> <<>>, exit |-> "" ]

\* the session after the run r
Ended(r) ==
    /\ assess = r.assess /\ thr_w = r.thr_w /\ sector = r.sector
    /\ last_sector = r.last_sector /\ opt_split = r.opt_split /\ upload = r.upload
    /\ sel3 = r.sel3 /\ checks = r.checks /\ said = r.said /\ json_blob = r.json_blob
    /\ rerun = (r.exit = "rerun")
    /\ error = IF r.exit \in {"", "rerun", "stop"} THEN "" ELSE r.exit

\* the session is set up and the first run of the script goes on from line 717
Init ==
    /\ arg = None /\ res = None /\ pc = None
    /\ \E ids \in IdSeqs : Ended([FirstSession(ids) EXCEPT !.exit = "rerun"])

\* the run started by the interaction ev
Run(ev) ==
    \E r \in {ScriptRun(Session, ev)} :
        /\ Len(r.assess.hazards) <= MaxHazards
        /\ assess' = r.assess /\ thr_w' = r.thr_w /\ sector' = r.sector
        /\ last_sector' = r.last_sector /\ opt_split' = r.opt_split /\ upload' = r.upload
        /\ sel3' = r.sel3 /\ checks' = r.checks /\ said' = r.said
        /\ json_blob' = r.json_blob /\ rerun' = (r.exit = "rerun")
        /\ error' = (IF r.exit \in {"", "rerun", "stop"} THEN "" ELSE r.exit)
        /\ UNCHANGED fnvars

\* the tabs were drawn by the last run
TabsDrawn == ~rerun /\ error \in {"", ErrSlider}

\* no run is pending and no import has just failed: after a failed import the
\* user is followed only in replacing or removing the file
SidebarFree == ~rerun /\ error \notin ImportErrors

\* st.rerun(): the script runs again at once
Rerun == rerun /\ \E ids \in IdSeqs : Run(Event("rerun", None, ids))

SelectSector ==
    /\ SidebarFree
    /\ \E s \in Sectors \ {sector}, ids \in IdSeqs : Run(Event("sel_industry", s, ids))

LoadReplaceSidebar ==
    SidebarFree /\ \E ids \in IdSeqs : Run(Event("btn_load_replace_sidebar", None, ids))

LoadAppendSidebar ==
    SidebarFree /\ \E ids \in IdSeqs : Run(Event("btn_load_append_sidebar", None, ids))

SetLow ==
    /\ SidebarFree /\ error # ErrLow
    /\ \E v \in (ThresholdInputs \cap 2..10) \ {thr_w[1]} : Run(Event("thr_low", v, NoIds))

SetMid ==
    /\ SidebarFree /\ error \notin {ErrLow, ErrMid}
    /\ \E v \in (ThresholdInputs \cap (thr_w[1] + 1)..16) \ {thr_w[2]} :
           Run(Event("thr_mid", v, NoIds))

SetHigh ==
    /\ SidebarFree /\ error \notin ThresholdErrors
    /\ \E v \in (ThresholdInputs \cap (thr_w[2] + 1)..24) \ {thr_w[3]} :
           Run(Event("thr_high", v, NoIds))

UploadFile(d) ==
    /\ ~rerun /\ error \notin ThresholdErrors
    /\ upload # <<d>>
    /\ Run(Event("upload", d, NoIds))

Upload == \E d \in SessionDocs : UploadFile(d)

ClearUpload ==
    /\ error \notin ThresholdErrors
    /\ upload # <<>>
    /\ Run(Event("clear_upload", None, NoIds))

FallbackLoadTab2 ==
    /\ TabsDrawn /\ assess.hazards = <<>>
    /\ \E ids \in IdSeqs : Run(Event("btn_fallback_load_from_tab2", None, ids))

FallbackLoadTab3 ==
    /\ TabsDrawn /\ assess.hazards = <<>>
    /\ \E ids \in IdSeqs : Run(Event("btn_fallback_load_from_tab3", None, ids))

\* the checkbox opt_split_multi_hazards is ticked or cleared
ToggleSplit == SidebarFree /\ Run(Event("opt_split_multi_hazards", None, NoIds))

\* a checkbox of tab 0 is ticked or cleared
ToggleCheck ==
    /\ TabsDrawn
    /\ \E k \in ItemKeysOf(sector, INDUSTRY_LIBRARY(sector)) : Run(Event("chk", k, NoIds))

MarkAll == TabsDrawn /\ Run(Event("btn_mark_all", None, NoIds))

UnmarkAll == TabsDrawn /\ Run(Event("btn_unmark_all", None, NoIds))

ApplyAppend ==
    TabsDrawn /\ \E ids \in IdSeqs : Run(Event("btn_apply_append", None, ids))

ApplyReplace ==
    TabsDrawn /\ \E ids \in IdSeqs : Run(Event("btn_apply_replace", None, ids))

FullTemplateReplace ==
    TabsDrawn /\ \E ids \in IdSeqs : Run(Event("btn_full_template_replace", None, ids))

\* the sidebar button "JSON sichern" is pressed
JsonDump == SidebarFree /\ Run(Event("btn_json_dump", None, NoIds))

\* the form of tab 2 holds inp and Hinzufuegen is pressed
AddHazardWith(inp, ids) == TabsDrawn /\ Run(Event("btn_add_hazard", inp, ids))

AddHazard == \E inp \in ManualInputs, ids \in IdSeqs : AddHazardWith(inp, ids)

\* the same with the field of the hazard left empty, blank, or naming two hazards
FillForm == \E inp \in FormInputs, ids \in IdSeqs : AddHazardWith(inp, ids)

DeleteHazard(sel_id) ==
    /\ TabsDrawn
    /\ \E k \in 1..Len(assess.hazards) : assess.hazards[k].id = sel_id
    /\ Run(Event("btn_delete", sel_id, NoIds))

Delete == \E sel_id \in Ids : DeleteHazard(sel_id)

SelectHazard3 ==
    /\ TabsDrawn
    /\ \E k \in (1..Len(assess.hazards)) \ {sel3} : Run(Event("sel_hazard_assess", k, NoIds))

SetProb ==
    /\ TabsDrawn /\ error = "" /\ assess.hazards # <<>>
    /\ \E v \in SliderInputs : Run(Event("prob", v, NoIds))

SetSev ==
    /\ TabsDrawn /\ error = "" /\ assess.hazards # <<>>
    /\ \E v \in SliderInputs : Run(Event("sev", v, NoIds))

Next ==
    \/ Rerun
    \/ SelectSector
    \/ LoadReplaceSidebar
    \/ LoadAppendSidebar
    \/ SetLow
    \/ SetMid
    \/ SetHigh
    \/ Upload
    \/ ClearUpload
    \/ FallbackLoadTab2
    \/ FallbackLoadTab3
    \/ AddHazard
    \/ Delete
    \/ SelectHazard3
    \/ SetProb
    \/ SetSev

Spec == Init /\ [][Next]_vars

\* the session of a user who works with the templates: sector, options, the
\* loads of the sidebar, tab 0 and the fallback buttons, between them ratings,
\* a threshold and deletions
NextLoads ==
    \/ Rerun
    \/ SelectSector
    \/ ToggleSplit
    \/ LoadReplaceSidebar
    \/ LoadAppendSidebar
    \/ SetLow
    \/ FallbackLoadTab2
    \/ FallbackLoadTab3
    \/ ToggleCheck
    \/ MarkAll
    \/ UnmarkAll
    \/ ApplyAppend
    \/ ApplyReplace
    \/ FullTemplateReplace
    \/ Delete
    \/ SelectHazard3
    \/ SetProb

SpecLoads == Init /\ [][NextLoads]_vars

\* the session of a user who chooses the sector and the option, enters hazards
\* by hand and rates them
NextManual ==
    \/ Rerun
    \/ SelectSector
    \/ ToggleSplit
    \/ FillForm
    \/ SelectHazard3
    \/ SetProb

SpecManual == Init /\ [][NextManual]_vars

\* the session of a user who rates the hazards, sets a threshold and saves the
\* JSON for the download
NextDownload ==
    \/ Rerun
    \/ JsonDump
    \/ SetLow
    \/ SelectHazard3
    \/ SetProb
    \/ SetSev

SpecDownload == Init /\ [][NextDownload]_vars

----------------------------------------------------------------------------
(* The specifications of the pure functions *)

\* no session exists: the script has not run
SessionIdle ==
    /\ assess = None /\ thr_w = None /\ sector = None /\ last_sector = None
    /\ opt_split = None /\ upload = None /\ sel3 = None /\ checks = None
    /\ said = None /\ json_blob = None
    /\ rerun = None /\ error = None

ComputeRisk ==
    /\ pc = "call"
    /\ res' = compute_risk(arg.prob, arg.sev, arg.thresholds)
    /\ pc' = "done"
    /\ UNCHANGED <<arg, sessionvars>>

InitRisk == arg \in RiskArgs /\ res = <<>> /\ pc = "call" /\ SessionIdle

SpecRisk == InitRisk /\ [][ComputeRisk]_vars

SplitHazardText ==
    /\ pc = "call"
    /\ res' = split_hazard_text(arg)
    /\ pc' = "done"
    /\ UNCHANGED <<arg, sessionvars>>

InitSplit == arg \in Texts /\ res = <<>> /\ pc = "call" /\ SessionIdle

SpecSplit == InitSplit /\ [][SplitHazardText]_vars

\* export followed by import
RoundTrip ==
    /\ pc = "call"
    /\ res' = from_json(as_json(arg))
    /\ pc' = "done"
    /\ UNCHANGED <<arg, sessionvars>>

InitRoundTrip == arg \in AssessmentSamples /\ res = <<>> /\ pc = "call" /\ SessionIdle

SpecRoundTrip == InitRoundTrip /\ [][RoundTrip]_vars

FromJson ==
    /\ pc = "call"
    /\ res' = from_json(arg)
    /\ pc' = "done"
    /\ UNCHANGED <<arg, sessionvars>>

InitFromJson == arg \in Docs /\ res = <<>> /\ pc = "call" /\ SessionIdle

SpecFromJson == InitFromJson /\ [][FromJson]_vars

\* the sample assessments with the ids new_id may have given their hazards
ExportSamples ==
    {[a EXCEPT !.hazards = [k \in 1..Len(@) |-> [@[k] EXCEPT !.id = ids[k]]]] :
        a \in AssessmentSamples, ids \in IdSeqs}

DumpExcel ==
    /\ pc = "call"
    /\ res' = dump_excel(arg)
    /\ pc' = "done"
    /\ UNCHANGED <<arg, sessionvars>>

InitExport == arg \in ExportSamples /\ res = <<>> /\ pc = "call" /\ SessionIdle

SpecExport == InitExport /\ [][DumpExcel]_vars

\* hazard texts of template items: two hazards, one hazard, none, one hazard named
\* twice, and two texts that differ in their delimiter alone
ItemTexts ==
    { <<"a", ",", " ", "a", "a">>, <<"a", "a", "a">>, <<>>, <<"a", ",", "a">>,
      <<"a", "/", "a", "a">>, <<"a", " ", "&", " ", "a", "a">> }

\* measures of template items: none, a dict and a plain string, entries without a
\* title, and titles written with blanks around them
ItemMeasures ==
    { <<>>,
      <<M("Spritzschutz", "T (Technisch)"), PlainMeasure("Rettungsplan")>>,
      <<M("", "P (PSA)"), PlainMeasure(" Rettungsplan ")>>,
      <<PlainMeasure(" "), M(" Rettungsplan ", "P (PSA)"), M(" ", "T (Technisch)")>> }

Item(activity, hazard, measures) ==
    [ activity |-> activity, hazard |-> hazard, sources |-> <<"Herde">>,
      existing |-> <<"Hitzeschutz">>, measures |-> measures ]

LagerItem == Item("Auspacken", <<"a", " ", "und", " ", "a", "a">>, <<M("Leiter pruefen", "O (Organisatorisch)")>>)

\* templates of two areas, the first with two items of one activity
TemplateSamples ==
    { << [area |-> "Kueche", items |-> <<Item("Kochen", h1, ms), Item("Kochen", h2, <<>>)>>],
         [area |-> "Lager", items |-> <<LagerItem>>] >> :
        h1 \in ItemTexts, ms \in ItemMeasures, h2 \in {<<"a", "/", "a", "a">>, <<"a">>} }

\* the keys ticked, computed for the sector Baeckerei: None, no key, the key of the
\* first item, the key of the last item with a key of another sector
KeySamples(template) ==
    { NoKeys, Keys(<<>>),
      Keys(<<template_item_key("Baeckerei", "Kueche", template[1].items[1])>>),
      Keys(<<template_item_key("Brauerei", "Lager", LagerItem),
             template_item_key("Baeckerei", "Lager", LagerItem)>>) }

\* the ids new_id gives the hazards of one call
TemplateIds == [k \in 1..8 |-> IF k % 2 = 1 THEN "HZ-1" ELSE "HZ-2"]

TemplateArgs ==
    { [ a |-> a, template |-> template, selected_keys |-> keys, industry_name |-> name,
        split_multi |-> split ] :
        a \in {Assessment("Musterbetrieb GmbH", "Beispielstadt", Today, "HSE/SiFa"),
               BaseAssessment},
        template \in {tmpl \in TemplateSamples : TRUE},
        keys \in UNION {KeySamples(tmpl) : tmpl \in TemplateSamples},
        name \in {None, "Baeckerei"},
        split \in BOOLEAN }

AddTemplateItems ==
    /\ pc = "call"
    /\ res' = add_template_items(arg.a, arg.template, arg.selected_keys, arg.industry_name,
                                 arg.split_multi, TemplateIds)
    /\ pc' = "done"
    /\ UNCHANGED <<arg, sessionvars>>

InitTemplate == arg \in TemplateArgs /\ res = <<>> /\ pc = "call" /\ SessionIdle

SpecTemplate == InitTemplate /\ [][AddTemplateItems]_vars

----------------------------------------------------------------------------
(* The objects behind the hazards' measures.  In Python a Measure is an      *)
(* object and additional_measures a list object, and tabs 4 and 6 change them *)
(* in place; res is the heap: hazards are the entries of assess.hazards, each *)
(* with the address of its list, lists the list objects (sequences of         *)
(* addresses of measures) and objs the Measure objects.                       *)

EmptyHeap == [hazards |-> <<>>, lists |-> <<>>, objs |-> <<>>]

\* lines 670-682 for one hz_text, with every kept measure of the item handed on as
\* the object made for the item's first hazard
new_hazard_shared(st, area, item, hz_text) ==
    LET kept == MeasuresOf(item.measures)
        same == {j \in 1..Len(st.hazards) :
                    st.hazards[j].area = area /\ st.hazards[j].activity = item.activity}
    IN  IF same = {}
        THEN [ hazards |-> Append(st.hazards,
                                  [area |-> area, activity |-> item.activity,
                                   hazard |-> hz_text, list |-> Len(st.lists) + 1]),
               lists |-> Append(st.lists, [i \in 1..Len(kept) |-> Len(st.objs) + i]),
               objs |-> st.objs \o kept ]
        ELSE [ hazards |-> Append(st.hazards,
                                  [area |-> area, activity |-> item.activity,
                                   hazard |-> hz_text, list |-> Len(st.lists) + 1]),
               lists |-> Append(st.lists, st.lists[st.hazards[MinOf(same)].list]),
               objs |-> st.objs ]

\* lines 670-682 for one hz_text: Hazard(...) makes a new list (default_factory,
\* line 50), normalize_measure makes a new Measure for every kept entry (lines
\* 649-656), line 681 appends it to the list and line 682 the hazard to the hazards
new_hazard(st, area, item, hz_text) ==
    LET kept == MeasuresOf(item.measures)
    IN  [ hazards |-> Append(st.hazards,
                             [area |-> area, activity |-> item.activity,
                              hazard |-> hz_text, list |-> Len(st.lists) + 1]),
          lists |-> Append(st.lists, [i \in 1..Len(kept) |-> Len(st.objs) + i]),
          objs |-> st.objs \o kept ]

RECURSIVE new_hazards(_, _, _, _)
\* the loop of line 669 over hazards_list
new_hazards(st, area, item, hazards_list) ==
    IF hazards_list = <<>> THEN st
    ELSE new_hazards(new_hazard(st, area, item, hazards_list[1]), area, item,
                     Tail(hazards_list))

RECURSIVE new_items(_, _, _, _)
\* the loop of line 661 over the items of one area
new_items(st, area, items, split_multi) ==
    IF items = <<>> THEN st
    ELSE new_items(new_hazards(st, area, items[1],
                               IF split_multi THEN split_hazard_text(items[1].hazard)
                               ELSE <<items[1].hazard>>),
                   area, Tail(items), split_multi)

RECURSIVE new_template(_, _, _)
\* the loop of line 660 over the areas: add_template_items on the heap
new_template(st, template, split_multi) ==
    IF template = <<>> THEN st
    ELSE new_template(new_items(st, template[1].area, template[1].items, split_multi),
                      Tail(template), split_multi)

\* line 1036: hz.additional_measures.append(Measure(...)) for the k-th hazard
measure_appended(st, k, m) ==
    [st EXCEPT !.lists[st.hazards[k].list] = Append(@, Len(st.objs) + 1),
               !.objs = Append(@, m)]

\* line 1069: m.status = ... for the i-th measure of the k-th hazard
status_set(st, k, i, status) ==
    [st EXCEPT !.objs[st.lists[st.hazards[k].list][i]].status = status]

\* line 1070: m.notes = ... for the i-th measure of the k-th hazard
notes_set(st, k, i, notes) ==
    [st EXCEPT !.objs[st.lists[st.hazards[k].list][i]].notes = notes]

\* the measures of the k-th hazard as tab 4 and the exports read them
MeasuresAt(st, k) ==
    [i \in 1..Len(st.lists[st.hazards[k].list]) |-> st.objs[st.lists[st.hazards[k].list][i]]]

\* the most Measure objects the heap is followed to
MaxObjects == 4

\* what is entered into the form of tab 4
MeasureInputs ==
    {[Measure("Unterweisung", STOP_LEVELS[5]) EXCEPT !.responsible = "Leitung",
                                                      !.due_date = "2025-03-01"]}

\* "Vorlage ERSETZEN" and "Vorlage ANHAENGEN" for the sector sec; the objects of the
\* hazards that a replacing load drops are out of reach and leave the heap
HeapLoad(sec, replace) ==
    /\ pc = "heap"
    /\ \E st \in {new_template(IF replace THEN EmptyHeap ELSE res,
                                INDUSTRY_LIBRARY(sec), arg)} :
           /\ Len(st.objs) <= MaxObjects
           /\ res' = st
    /\ UNCHANGED <<arg, pc, sessionvars>>

HeapLoadReplace == \E sec \in Sectors : HeapLoad(sec, TRUE)

HeapLoadAppend == \E sec \in Sectors : HeapLoad(sec, FALSE)

\* tab 4 standing at the k-th hazard, "Hinzufuegen" pressed
HeapAddMeasure(k) ==
    /\ pc = "heap"
    /\ Len(res.objs) < MaxObjects
    /\ \E m \in MeasureInputs : res' = measure_appended(res, k, m)
    /\ UNCHANGED <<arg, pc, sessionvars>>

\* tab 6 standing at the k-th hazard, the status of a measure chosen
HeapSetStatus(k) ==
    /\ pc = "heap"
    /\ \E i \in 1..Len(MeasuresAt(res, k)) :
           /\ MeasuresAt(res, k)[i].status # "wirksam"
           /\ res' = status_set(res, k, i, "wirksam")
    /\ UNCHANGED <<arg, pc, sessionvars>>

\* tab 6 standing at the k-th hazard, the note of a measure written
HeapSetNotes(k) ==
    /\ pc = "heap"
    /\ \E i \in 1..Len(MeasuresAt(res, k)) :
           /\ MeasuresAt(res, k)[i].notes # "geprueft"
           /\ res' = notes_set(res, k, i, "geprueft")
    /\ UNCHANGED <<arg, pc, sessionvars>>

HeapAdd == \E k \in 1..Len(res.hazards) : HeapAddMeasure(k)

HeapStatus == \E k \in 1..Len(res.hazards) : HeapSetStatus(k)

HeapNotes == \E k \in 1..Len(res.hazards) : HeapSetNotes(k)

\* the option opt_split_multi_hazards is arg; no hazard has been made
InitHeap == arg \in BOOLEAN /\ res = EmptyHeap /\ pc = "heap" /\ SessionIdle

NextHeap == HeapLoadReplace \/ HeapLoadAppend \/ HeapAdd \/ HeapStatus \/ HeapNotes

SpecHeap == InitHeap /\ [][NextHeap]_vars

\* the thresholds the number inputs of lines 796-798 admit
WidgetTriples ==
    {t \in AscendingTriples : 2 <= t[1] /\ t[1] <= 10 /\ t[2] <= 16 /\ t[3] <= 24}

\* the risk values of the 5x5 matrix
RiskValues == 1..25

\* the level compute_risk gives each risk value under the thresholds arg
RiskBands ==
    /\ pc = "call"
    /\ res' = [v \in RiskValues |-> compute_risk(v, 1, arg)[2]]
    /\ pc' = "done"
    /\ UNCHANGED <<arg, sessionvars>>

InitBands == arg \in WidgetTriples /\ res = <<>> /\ pc = "call" /\ SessionIdle

SpecBands == InitBands /\ [][RiskBands]_vars

----------------------------------------------------------------------------
(* Claims about the pure functions *)

\* C1: for prob, sev in 1..5 and ascending thresholds, compute_risk returns the
\* product and the band it falls in: niedrig up to t1, mittel up to t2, hoch up to
\* t3, sehr hoch above; compute_risk(1,1,[6,12,16]) = (1, niedrig) and
\* compute_risk(5,5,[6,12,16]) = (25, sehr hoch).
C1_ComputeRiskBands ==
    pc = "done" =>
        LET v == arg.prob * arg.sev
            t == arg.thresholds
        IN  /\ res[1] = v
            /\ res[2] \in {"niedrig", "mittel", "hoch", "sehr hoch"}
            /\ res[2] = "niedrig" <=> v <= t[1]
            /\ res[2] = "mittel" <=> (t[1] < v /\ v <= t[2])
            /\ res[2] = "hoch" <=> (t[2] < v /\ v <= t[3])
            /\ res[2] = "sehr hoch" <=> t[3] < v
            /\ (arg.prob = 1 /\ arg.sev = 1 /\ t = <<6, 12, 16>>) => res = <<1, "niedrig">>
            /\ (arg.prob = 5 /\ arg.sev = 5 /\ t = <<6, 12, 16>>) => res = <<25, "sehr hoch">>

\* a risk value that sits exactly on the middle threshold has been classified
C1_Witness ==
    /\ pc = "done"
    /\ arg.prob = 3 /\ arg.sev = 4 /\ arg.thresholds = <<6, 12, 16>>
    /\ res = <<12, "mittel">>

\* C6: from_json(as_json(a)) equals a, field for field.
C6_RoundTrip ==
    pc = "done" => res.ok /\ res.value = arg

\* two hazards came back, one never reviewed and one with a measure without due date
C6_Witness ==
    /\ pc = "done"
    /\ res.ok
    /\ Len(res.value.hazards) = 2
    /\ res.value.hazards[1].last_review = None
    /\ Len(res.value.hazards[2].additional_measures) = 2
    /\ res.value.hazards[2].additional_measures[2].due_date = None
    /\ res.value.hazards[2].last_review # None
    /\ res.value.company # ""

\* a delimiter of the hazard text stands somewhere in text
HasDelimiter(text) == \E p \in 1..Len(text) : AltEnd(text, p) # 0

RECURSIVE LiteralPieces(_, _, _)
\* the pieces of text between its delimiters, found scanning from the left:
\* s is where the current piece starts, p the position looked at
LiteralPieces(text, s, p) ==
    IF p > Len(text) THEN <<SubSeq(text, s, Len(text))>>
    ELSE IF AltEnd(text, p) # 0
         THEN <<SubSeq(text, s, p - 1)>> \o LiteralPieces(text, AltEnd(text, p), AltEnd(text, p))
         ELSE LiteralPieces(text, s, p + 1)

\* the pieces trimmed, the empty ones dropped, repetitions removed
TrimmedPieces(text) == Uniq(StrippedParts(LiteralPieces(text, 1, 1)), {})

\* C7: split_hazard_text returns the pieces of text separated by comma, slash,
\* " und " or " & ", trimmed, without empty pieces and without repetitions; a text
\* without delimiter gives the list of the trimmed text alone.  (Stated for the
\* texts that are not empty and, when they hold a delimiter, hold a non-blank piece.)
C7_SplitsAtDelimiters ==
    pc = "done" =>
        /\ (HasDelimiter(arg) /\ TrimmedPieces(arg) # <<>>) => res = TrimmedPieces(arg)
        /\ (~HasDelimiter(arg) /\ arg # <<>>) => res = <<strip(arg)>>

\* C8: splitting is idempotent: every element p of split_hazard_text(text)
\* satisfies split_hazard_text(p) = [p].
C8_SplitIdempotent ==
    pc = "done" => \A k \in 1..Len(res) : split_hazard_text(res[k]) = <<res[k]>>

\* the keys of a JSON object of the assessment that may be missing, with the values
\* from_json is to put in their place
TopDefaults ==
    [ company |-> "", location |-> "", created_at |-> "", created_by |-> "",
      industry |-> "Hotel/Gastgewerbe", scope_note |-> "",
      risk_matrix_thresholds |-> [thresholds |-> <<6, 12, 16>>],
      measures_plan_note |-> "", documentation_note |-> "", next_review_hint |-> "" ]

HazardDefaults ==
    [ sources |-> <<>>, prob |-> 3, sev |-> 3, risk_value |-> 9, risk_level |-> "mittel",
      last_review |-> None, reviewer |-> "", documentation_note |-> "" ]

MeasureDefaults ==
    [ responsible |-> "", due_date |-> None, status |-> "offen", notes |-> "" ]

\* every key of defaults is, in the built record, the value of the JSON object when
\* the object has the key and the default when it has not
FilledFrom(built, object, defaults) ==
    \A k \in DOMAIN defaults :
        built[k] = IF k \in DOMAIN object THEN object[k] ELSE defaults[k]

\* the JSON text has what from_json cannot do without
Importable(s) ==
    /\ s.valid
    /\ "hazards" \in DOMAIN s.data =>
           \A i \in 1..Len(s.data.hazards) :
               /\ HazardAccepts(s.data.hazards[i])
               /\ "additional_measures" \in DOMAIN s.data.hazards[i] =>
                      \A j \in 1..Len(s.data.hazards[i].additional_measures) :
                          MeasureAccepts(s.data.hazards[i].additional_measures[j])

\* C10: from_json does not raise on missing optional fields and fills each with
\* its default (3/3/9/mittel, empty lists, None, "", Hotel/Gastgewerbe, [6,12,16]);
\* the fields that are present are taken unchanged.
C10_MissingFieldsDefaulted ==
    (pc = "done" /\ Importable(arg)) =>
        /\ res.ok
        /\ FilledFrom(res.value, arg.data, TopDefaults)
        /\ Len(res.value.hazards) =
               (IF "hazards" \in DOMAIN arg.data THEN Len(arg.data.hazards) ELSE 0)
        /\ \A i \in 1..Len(res.value.hazards) :
               LET h == arg.data.hazards[i]
                   b == res.value.hazards[i]
               IN  /\ FilledFrom(b, h, HazardDefaults)
                   /\ \A k \in {"id", "area", "activity", "hazard"} : b[k] = h[k]
                   /\ "existing_controls" \in DOMAIN h =>
                          b.existing_controls = h.existing_controls
                   /\ DOMAIN h \cap {"existing_controls", "existing"} = {} =>
                          b.existing_controls = <<>>
                   /\ Len(b.additional_measures) =
                          (IF "additional_measures" \in DOMAIN h
                           THEN Len(h.additional_measures) ELSE 0)
                   /\ \A j \in 1..Len(b.additional_measures) :
                          /\ FilledFrom(b.additional_measures[j],
                                        h.additional_measures[j], MeasureDefaults)
                          /\ b.additional_measures[j].title = h.additional_measures[j].title
                          /\ b.additional_measures[j].stop_level =
                                 h.additional_measures[j].stop_level

\* a hazard without prob and risk_value has been imported
C10_Witness ==
    /\ pc = "done"
    /\ Importable(arg)
    /\ "hazards" \in DOMAIN arg.data
    /\ Len(arg.data.hazards) = 1
    /\ DOMAIN arg.data.hazards[1] \cap {"prob", "risk_value"} = {}
    /\ res.ok
    /\ res.value.hazards[1].prob = 3
    /\ res.value.hazards[1].risk_value = 9
    /\ res.value.hazards[1].sev = 4

\* the risk values that res puts in the band level
Band(level) == {v \in RiskValues : res[v] = level}

\* C14: for every threshold triple the sidebar admits, compute_risk splits the risk
\* values 1..25 into four non-empty contiguous bands in the order niedrig, mittel,
\* hoch, sehr hoch; 1 is niedrig and 25 is sehr hoch.
C14_FourBands ==
    pc = "done" =>
        /\ \A v \in RiskValues : res[v] \in {"niedrig", "mittel", "hoch", "sehr hoch"}
        /\ \A level \in {"niedrig", "mittel", "hoch", "sehr hoch"} :
               /\ Band(level) # {}
               /\ Band(level) = MinOf(Band(level))..MaxOf(Band(level))
        /\ MaxOf(Band("niedrig")) < MinOf(Band("mittel"))
        /\ MaxOf(Band("mittel")) < MinOf(Band("hoch"))
        /\ MaxOf(Band("hoch")) < MinOf(Band("sehr hoch"))
        /\ res[1] = "niedrig"
        /\ res[25] = "sehr hoch"

\* the highest thresholds the sidebar admits: only 25 is sehr hoch
C14_Witness ==
    /\ pc = "done"
    /\ arg = <<10, 16, 24>>
    /\ DOMAIN res = RiskValues
    /\ Band("sehr hoch") = {25}
    /\ Band("niedrig") = 1..10

RECURSIVE OwnerPairs(_, _)
\* the pairs <<hazard, measure>> of the hazards from the k-th on, in hazard order
\* and under one hazard in measure order
OwnerPairs(hazards, k) ==
    IF k > Len(hazards) THEN <<>>
    ELSE [i \in 1..Len(hazards[k].additional_measures) |-> <<k, i>>]
         \o OwnerPairs(hazards, k + 1)

RECURSIVE MeasureCount(_)
\* the sum of the hazards' measure counts
MeasureCount(hazards) ==
    IF hazards = <<>> THEN 0
    ELSE Len(hazards[1].additional_measures) + MeasureCount(Tail(hazards))

\* the sheet has one row for every pair, in the order of the pairs, that carries
\* the id of the pair's hazard and the fields of the pair's measure
RowPerPair(sheet, hazards, pairs) ==
    /\ Len(sheet) = Len(pairs)
    /\ \A n \in 1..Len(pairs) :
           /\ sheet[n]["Gefaehrdungs-ID"] = hazards[pairs[n][1]].id
           /\ sheet[n]["Massnahme"] =
                  hazards[pairs[n][1]].additional_measures[pairs[n][2]].title
           /\ sheet[n]["Status"] =
                  hazards[pairs[n][1]].additional_measures[pairs[n][2]].status

\* C15: the hazard sheet has one row per hazard in list order with the hazard's id,
\* prob, sev, risk_value and risk_level; the measure sheet and the plan sheet have
\* one row per (hazard, measure) pair in hazard order then measure order, each with
\* the id of the owning hazard; their row count is the sum of the measure counts.
C15_ExportRows ==
    pc = "done" =>
        /\ Len(res.hazards) = Len(arg.hazards)
        /\ \A k \in 1..Len(arg.hazards) :
               /\ res.hazards[k]["ID"] = arg.hazards[k].id
               /\ res.hazards[k]["Eintrittswahrscheinlichkeit (1-5)"] = arg.hazards[k].prob
               /\ res.hazards[k]["Schadensschwere (1-5)"] = arg.hazards[k].sev
               /\ res.hazards[k]["Risikosumme"] = arg.hazards[k].risk_value
               /\ res.hazards[k]["Risikostufe"] = arg.hazards[k].risk_level
        /\ RowPerPair(res.measures, arg.hazards, OwnerPairs(arg.hazards, 1))
        /\ RowPerPair(res.plan, arg.hazards, OwnerPairs(arg.hazards, 1))
        /\ Len(res.measures) = MeasureCount(arg.hazards)
        /\ Len(res.plan) = MeasureCount(arg.hazards)

\* two hazards with different ids and two measures each have been exported
C15_Witness ==
    /\ pc = "done"
    /\ Len(arg.hazards) = 2
    /\ arg.hazards[1].id # arg.hazards[2].id
    /\ Len(arg.hazards[1].additional_measures) = 2
    /\ Len(arg.hazards[2].additional_measures) = 2
    /\ Len(res.measures) = 4
    /\ res.measures[3]["Gefaehrdungs-ID"] = arg.hazards[2].id
    /\ res.plan[2]["Gefaehrdungs-ID"] = arg.hazards[1].id

\* the measures of every hazard but the k-th are after the step what they were
OthersKeep(k) ==
    /\ Len(res'.hazards) = Len(res.hazards)
    /\ \A j \in (1..Len(res.hazards)) \ {k} : MeasuresAt(res', j) = MeasuresAt(res, j)

\* C16: a measure belongs to one hazard: setting the status or the note of a
\* measure of one hazard, or appending a measure to one hazard, changes the
\* measures of no other hazard, also among the hazards split from one template
\* item and among those of a template loaded twice.
C16_MeasuresOwned ==
    [][\A k \in 1..Len(res.hazards) :
          (HeapAddMeasure(k) \/ HeapSetStatus(k) \/ HeapSetNotes(k)) => OthersKeep(k)]_vars

\* two hazards split from one item, the first one's measure set to wirksam and the
\* second one's still offen
C16_Witness ==
    /\ pc = "heap"
    /\ Len(res.hazards) >= 2
    /\ res.hazards[1].activity = res.hazards[2].activity
    /\ res.hazards[1].hazard # res.hazards[2].hazard
    /\ MeasuresAt(res, 1)[1].status = "wirksam"
    /\ MeasuresAt(res, 2)[1].status = "offen"
    /\ MeasuresAt(res, 2)[1].title = MeasuresAt(res, 1)[1].title

\* the Measure objects from place n on are offen
OpenFrom(st, n) == \A i \in n..Len(st.objs) : st.objs[i].status = "offen"

\* C24: every measure newly made, from an entry of a template or by the form of
\* tab 4, has the status offen; the form appends one measure to the hazard chosen
\* and changes no other hazard
C24_NewMeasuresOpen ==
    [][/\ \A sec \in Sectors :
              /\ HeapLoad(sec, TRUE) => OpenFrom(res', 1)
              /\ HeapLoad(sec, FALSE) => OpenFrom(res', Len(res.objs) + 1)
       /\ \A k \in 1..Len(res.hazards) :
              HeapAddMeasure(k) =>
                  /\ Len(res'.objs) = Len(res.objs) + 1
                  /\ OpenFrom(res', Len(res.objs) + 1)
                  /\ MeasuresAt(res', k) =
                         Append(MeasuresAt(res, k), res'.objs[Len(res'.objs)])
                  /\ res'.hazards = res.hazards
                  /\ \A j \in (1..Len(res.hazards)) \ {k} :
                         MeasuresAt(res', j) = MeasuresAt(res, j)]_vars

\* the second of two hazards has the measure of its template, set to wirksam
\* since, and behind it the measure from the form, offen; the first hazard has
\* the measures of the template only
C24_Witness ==
    /\ pc = "heap"
    /\ Len(res.hazards) = 2
    /\ Len(MeasuresAt(res, 2)) = Len(MeasuresAt(res, 1)) + 1
    /\ MeasuresAt(res, 2)[1].status = "wirksam"
    /\ MeasuresAt(res, 2)[Len(MeasuresAt(res, 2))].title = "Unterweisung"
    /\ MeasuresAt(res, 2)[Len(MeasuresAt(res, 2))].status = "offen"

\* the sector whose name add_template_items builds the keys with
KeyIndustry == IF arg.industry_name = None THEN arg.a.industry ELSE arg.industry_name

\* the item of the area is one that the call takes
IsTaken(area, item) ==
    \/ arg.selected_keys = NoKeys
    \/ \E n \in 1..Len(arg.selected_keys[1]) :
           arg.selected_keys[1][n] = template_item_key(KeyIndustry, area, item)

\* the texts of the hazards an item gives
PiecesOf(item) ==
    IF arg.split_multi THEN split_hazard_text(item.hazard) ELSE <<item.hazard>>

RECURSIVE UnitsFrom(_, _)
\* <<area, item, text>> for every hazard text of every taken item from the j-th
\* item of the i-th area on, in template order
UnitsFrom(i, j) ==
    IF i > Len(arg.template) THEN <<>>
    ELSE IF j > Len(arg.template[i].items) THEN UnitsFrom(i + 1, 1)
    ELSE (IF IsTaken(arg.template[i].area, arg.template[i].items[j])
          THEN [n \in 1..Len(PiecesOf(arg.template[i].items[j])) |->
                   << arg.template[i].area, arg.template[i].items[j],
                      PiecesOf(arg.template[i].items[j])[n] >>]
          ELSE <<>>)
         \o UnitsFrom(i, j + 1)

\* the title of a template measure, dict or plain string, without the blanks around
TitleOf(m) == title_strip(IF m.is_dict THEN m.title ELSE m.text)

\* the measures a hazard of the item is to get
ItemMeasuresKept(item) ==
    LET kept == SelectSeq(item.measures, LAMBDA m : TitleOf(m) # "")
    IN  [n \in 1..Len(kept) |->
            [ title |-> TitleOf(kept[n]),
              stop_level |-> IF kept[n].is_dict THEN kept[n].stop_level
                             ELSE "O (Organisatorisch)",
              responsible |-> "", due_date |-> None, status |-> "offen", notes |-> "" ]]

\* the hazards the call appended
Appended == SubSeq(res.hazards, Len(arg.a.hazards) + 1, Len(res.hazards))

\* C17: add_template_items appends, for each taken item, one hazard per element of
\* split_hazard_text(hazard text) in split order when splitting is on, and one
\* hazard with the unsplit text when it is off; each has the item's area, activity,
\* sources and existing controls and the item's measures with a non-empty title
\* (a title counts without the blanks around it), plain-string measures with stop
\* level O (Organisatorisch).
C17_TemplateExploded ==
    pc = "done" =>
        /\ Len(Appended) = Len(UnitsFrom(1, 1))
        /\ \A n \in 1..Len(Appended) :
               LET h    == Appended[n]
                   unit == UnitsFrom(1, 1)[n]
               IN  /\ h.area = unit[1]
                   /\ h.activity = unit[2].activity
                   /\ h.hazard = unit[3]
                   /\ h.sources = unit[2].sources
                   /\ h.existing_controls = unit[2].existing
                   /\ h.additional_measures = ItemMeasuresKept(unit[2])

\* with splitting on, an item naming two hazards gave two hazards, each with the
\* dict measure and the plain-string measure
C17_Witness ==
    /\ pc = "done"
    /\ arg.split_multi
    /\ arg.selected_keys = NoKeys
    /\ arg.template[1].items[1].hazard = <<"a", ",", " ", "a", "a">>
    /\ Len(arg.template[1].items[1].measures) = 2
    /\ arg.template[1].items[1].measures[2] = PlainMeasure(" Rettungsplan ")
    /\ Len(Appended) >= 2
    /\ Appended[1].hazard = <<"a">>
    /\ Appended[2].hazard = <<"a", "a">>
    /\ Appended[2].activity = "Kochen"
    /\ Len(Appended[2].additional_measures) = 1
    /\ Appended[2].additional_measures[1].title = "Rettungsplan"
    /\ Appended[2].additional_measures[1].stop_level = "O (Organisatorisch)"

RECURSIVE ItemsFrom(_, _)
\* <<area, item>> for every item of the template from the j-th item of the i-th
\* area on, in template order
ItemsFrom(i, j) ==
    IF i > Len(arg.template) THEN <<>>
    ELSE IF j > Len(arg.template[i].items) THEN ItemsFrom(i + 1, 1)
    ELSE << <<arg.template[i].area, arg.template[i].items[j]>> >> \o ItemsFrom(i, j + 1)

\* the items whose key is in the list keys, in template order
ItemsWithKeyIn(keys) ==
    SelectSeq(ItemsFrom(1, 1),
              LAMBDA it : template_item_key(KeyIndustry, it[1], it[2]) \in Range(keys))

RECURSIVE Origins(_)
\* <<area, activity>> of every hazard the items of the list are to give
Origins(items) ==
    IF items = <<>> THEN <<>>
    ELSE [n \in 1..Len(PiecesOf(items[1][2])) |-> <<items[1][1], items[1][2].activity,
                                                     PiecesOf(items[1][2])[n]>>]
         \o Origins(Tail(items))

\* C20: with a list selected_keys, add_template_items creates hazards for exactly
\* the items whose template_item_key is in the list, in template order; an empty
\* list creates none; selected_keys = None takes every item.
C20_SelectedKeysTaken ==
    pc = "done" =>
        /\ [n \in 1..Len(Appended) |->
               <<Appended[n].area, Appended[n].activity, Appended[n].hazard>>]
             = Origins(IF arg.selected_keys = NoKeys THEN ItemsFrom(1, 1)
                       ELSE ItemsWithKeyIn(arg.selected_keys[1]))
        /\ arg.selected_keys = Keys(<<>>) => Appended = <<>>

\* one key was ticked: the item with the key gave hazards and the Lager item none
C20_Witness ==
    /\ pc = "done"
    /\ arg.selected_keys # NoKeys
    /\ Len(arg.selected_keys[1]) = 1
    /\ arg.industry_name = "Baeckerei"
    /\ Appended # <<>>
    /\ \A n \in 1..Len(Appended) : Appended[n].area = "Kueche"

\* the existing controls of the JSON hazard h: the new key, else the legacy key
ControlsOf(h) ==
    IF "existing_controls" \in DOMAIN h THEN h["existing_controls"]
    ELSE IF "existing" \in DOMAIN h THEN h["existing"]
    ELSE <<>>

\* C11: an imported hazard's existing_controls is the value of the key
\* existing_controls when present, else that of the legacy key existing, else the
\* empty list; when both keys are present existing_controls wins.
C11_ExistingControlsFallback ==
    (pc = "done" /\ Importable(arg)) =>
        /\ res.ok
        /\ \A i \in 1..Len(res.value.hazards) :
               res.value.hazards[i].existing_controls = ControlsOf(arg.data.hazards[i])

\* a hazard written under the legacy key alone has been imported
C11_Witness ==
    /\ pc = "done"
    /\ Importable(arg)
    /\ "hazards" \in DOMAIN arg.data
    /\ Len(arg.data.hazards) = 1
    /\ "existing" \in DOMAIN arg.data.hazards[1]
    /\ "existing_controls" \notin DOMAIN arg.data.hazards[1]
    /\ res.ok
    /\ res.value.hazards[1].existing_controls = <<"Abzug">>

----------------------------------------------------------------------------
(* Claims about the session *)

\* C2: in every reachable state each hazard's stored risk_level is the level that
\* compute_risk gives its stored risk_value under the thresholds of the assessment
C2_LevelFollowsThresholds ==
    \A k \in 1..Len(assess.hazards) :
        assess.hazards[k].risk_level =
            compute_risk(assess.hazards[k].risk_value, 1, thresholds_of(assess))[2]

\* C3: in every reachable state each hazard's risk_value is its prob times its sev
C3_ValueIsProduct ==
    \A k \in 1..Len(assess.hazards) :
        assess.hazards[k].risk_value = assess.hazards[k].prob * assess.hazards[k].sev

\* C4: in every reachable state the three thresholds are strictly ascending
C4_ThresholdsAscend ==
    /\ thresholds_of(assess)[1] < thresholds_of(assess)[2]
    /\ thresholds_of(assess)[2] < thresholds_of(assess)[3]

StopLabels == Range(STOP_LEVELS)

StatusLabels == Range(STATUS_LIST)

AfterSidebar(s, ev) ==
    sidebar_import(
        sidebar_export(
            sidebar_thresholds(sidebar_load(sidebar_sector(started(s, ev), ev), ev), ev),
            ev),
        ev)

\* the hazards add_template_items makes of the whole template of sec
TemplateHazards(sec, split_multi) ==
    HazardsOfTemplate(sec, INDUSTRY_LIBRARY(sec), NoKeys, split_multi)

\* the loads that replace
ReplaceLoad ==
    \/ SelectSector
    \/ LoadReplaceSidebar
    \/ FullTemplateReplace
    \/ FallbackLoadTab2
    \/ FallbackLoadTab3

\* C18: preload_industry with replace=True at the start of the session, and then
\* every load that replaces (the automatic load on a change of sector, the
\* sidebar button ERSETZEN, the button for the complete template in tab 0, the
\* fallback buttons of tabs 2 and 3) leaves as assess.hazards exactly the hazards
\* made of the template of the sector, none of those held before, and the sector
\* as assess.industry
C18_ReplaceLoadsLeaveTemplate ==
    /\ \E ids \in IdSeqs :
           assess.hazards = WithIds(TemplateHazards("Hotel/Gastgewerbe", TRUE), ids)
    /\ assess.industry = "Hotel/Gastgewerbe"
    /\ [][ReplaceLoad =>
              /\ \E ids \in IdSeqs :
                     assess'.hazards = WithIds(TemplateHazards(sector', opt_split'), ids)
              /\ assess'.industry = sector']_vars

\* a load has just put the one unsplit hazard of the hotel template where the
\* two split ones were, or others
C18_Witness ==
    /\ rerun /\ ~opt_split
    /\ assess.industry = "Hotel/Gastgewerbe"
    /\ \E ids \in IdSeqs :
           assess.hazards = WithIds(TemplateHazards("Hotel/Gastgewerbe", FALSE), ids)
    /\ Len(assess.hazards) = 1

\* new is old followed by the hazards made of the items of sec that keys takes
Extended(old, new, keys, sec, split_multi) ==
    \E ids \in IdSeqs :
        new = old \o WithIds(HazardsOfTemplate(sec, INDUSTRY_LIBRARY(sec), keys, split_multi),
                             ids)

\* lines 880-883 in the run started by ev: the hazards before them and after
ApplyAppendExtends(ev) ==
    \E r \in {AfterSidebar(Session, ev)} :
        Extended(r.assess.hazards, tab0(r, ev).assess.hazards, Keys(ListOf(r.checks)),
                 r.sector, r.opt_split)

TakenItems(sec, keys) ==
    { p \in UNION { { <<i, j>> : j \in 1..Len(INDUSTRY_LIBRARY(sec)[i].items) } :
                      i \in 1..Len(INDUSTRY_LIBRARY(sec)) } :
        Taken(sec, INDUSTRY_LIBRARY(sec)[p[1]].area,
              INDUSTRY_LIBRARY(sec)[p[1]].items[p[2]], keys) }

\* C21: the number of activities that the buttons of tab 0 for the ticked items
\* (append, replace) report is the number of items of the template of the sector
\* selected that the press has taken over into assess.hazards
C21_ReportedIsTaken ==
    [][(ApplyAppend \/ ApplyReplace) =>
           said' = <<Cardinality(TakenItems(sector, Keys(ListOf(checks))))>>]_vars

\* the runs in which the sector is not touched
PlainRun ==
    \/ Rerun
    \/ ToggleSplit
    \/ FillForm
    \/ SelectHazard3
    \/ SetProb

\* the hazards of old are in new, in their places, with what was entered for them
StillThere(old, new) ==
    /\ Len(old) <= Len(new)
    /\ \A k \in 1..Len(old) :
           /\ Label(new[k]) = Label(old[k])
           /\ new[k].sources = old[k].sources
           /\ new[k].existing_controls = old[k].existing_controls
           /\ Len(new[k].additional_measures) = Len(old[k].additional_measures)

\* the ratings of old are those of new
RatingsKept(old, new) ==
    \A k \in 1..Len(old) : new[k].prob = old[k].prob /\ new[k].sev = old[k].sev

\* C22: choosing another sector S in the sidebar makes the automatic load run
\* once: that run puts the template of S in the place of the hazards and stores S
\* as last_sector; a later run in which S is still chosen loads nothing, and the
\* hazards added or rated since are kept
C22_AutoLoadOnce ==
    [][/\ SelectSector =>
              /\ \E ids \in IdSeqs :
                     assess'.hazards = WithIds(TemplateHazards(sector', opt_split'), ids)
              /\ last_sector' = sector' /\ sector' # sector
              /\ rerun'
       /\ (last_sector = sector /\ PlainRun) =>
              /\ last_sector' = last_sector /\ sector' = sector
              /\ StillThere(assess.hazards, assess'.hazards)
              /\ (~SetProb) => RatingsKept(assess.hazards, assess'.hazards)]_vars

\* the bakery was chosen and its template loaded; the hazard added by hand since,
\* and the rating given since, are there after the runs that followed
C22_Witness ==
    /\ sector = "Baeckerei" /\ last_sector = "Baeckerei" /\ ~rerun
    /\ Len(assess.hazards) = 2
    /\ assess.hazards[1].activity = "Backen" /\ assess.hazards[1].prob = 5
    /\ assess.hazards[2].activity = "Reinigen"

\* lines 951-960 for the form inp: n hazards are behind those of old, each as
\* the form and the defaults of Hazard make it
FormAppended(inp, old, new, n) ==
    /\ Len(new) = Len(old) + n
    /\ SubSeq(new, 1, Len(old)) = old
    /\ \A k \in (Len(old) + 1)..Len(new) :
           /\ new[k].area = inp.area /\ new[k].activity = inp.activity
           /\ new[k].prob = 3 /\ new[k].sev = 3
           /\ new[k].additional_measures = <<>>

\* C23: a press of Hinzufuegen in the form of tab 2 appends as many hazards as
\* the message reports, one for each element of split_hazard_text(text) when the
\* option is set and one when it is not, each with the area and the activity
\* entered, prob 3, sev 3 and no measures, leaves the hazards held before as they
\* were, and adds at least one hazard
C23_ManualAddAppends ==
    [][\A inp \in FormInputs, ids \in IdSeqs :
          AddHazardWith(inp, ids) =>
              /\ said' # <<>>
              /\ said'[1] = (IF opt_split THEN Len(split_hazard_text(inp.hazard)) ELSE 1)
              /\ FormAppended(inp, assess.hazards, assess'.hazards, said'[1])
              /\ said'[1] >= 1]_vars

\* the uploader holds a file that from_json accepts
FileAccepted == upload # <<>> /\ from_json(upload[1]).ok

\* C25: once a file has been uploaded the import is applied once, and the run
\* that the import asks for draws the sidebar and the tabs with the imported
\* assessment: it neither ends in a further rerun nor in an exception
C25_ImportRunsOnce ==
    [][(Rerun /\ FileAccepted /\ sector = last_sector) => (~rerun' /\ error' = "")]_vars

\* the runs in which the user does nothing, chooses a hazard in tab 3 or rates it
UnreviewedRun ==
    \/ Rerun /\ upload = <<>> /\ sector = last_sector
    \/ SelectHazard3
    \/ SetProb
    \/ SetSev

\* C26: last_review of a hazard changes only when the user sets the date of the
\* review for it in tab 6: a run in which the user does something else leaves
\* every hazard's last_review as it was, None when the hazard was never reviewed
C26_LastReviewKept ==
    [][UnreviewedRun =>
           /\ Len(assess'.hazards) = Len(assess.hazards)
           /\ \A k \in 1..Len(assess.hazards) :
                  assess'.hazards[k].last_review = assess.hazards[k].last_review]_vars

\* C27: in every reachable state the hazards of the assessment have ids that
\* differ from one another
C27_IdsDistinct ==
    \A j, k \in 1..Len(assess.hazards) :
        assess.hazards[j].id = assess.hazards[k].id => j = k

\* C28: the JSON that the download button offers is at all times as_json of the
\* assessment of the session, also when "JSON sichern" was pressed before the
\* assessment was changed
C28_DownloadIsCurrent == json_offered(Session) = as_json(assess)

\* C29: moving the slider of prob in tab 3 rates the hazard chosen there and no
\* other: its prob is the value set, its risk_value and risk_level are computed
\* anew in the same run, and prob, sev, risk_value and risk_level of every other
\* hazard are as before, also when two hazards share an id or a label
C29_RatingUpdatesChosen ==
    [][\A v \in SliderInputs :
          (TabsDrawn /\ error = "" /\ assess.hazards # <<>> /\ Run(Event("prob", v, NoIds))) =>
              /\ Len(assess'.hazards) = Len(assess.hazards)
              /\ assess'.hazards[sel3].prob = v
              /\ assess'.hazards[sel3].risk_value = v * assess.hazards[sel3].sev
              /\ assess'.hazards[sel3].risk_level =
                     compute_risk(v, assess.hazards[sel3].sev, thresholds_of(assess'))[2]
              /\ \A k \in (1..Len(assess.hazards)) \ {sel3} :
                     /\ assess'.hazards[k].prob = assess.hazards[k].prob
                     /\ assess'.hazards[k].sev = assess.hazards[k].sev
                     /\ assess'.hazards[k].risk_value = assess.hazards[k].risk_value
                     /\ assess'.hazards[k].risk_level = assess.hazards[k].risk_level]_vars

\* hs without its k-th element
RemoveAt(hs, k) == [j \in 1..(Len(hs) - 1) |-> IF j < k THEN hs[j] ELSE hs[j + 1]]

\* C5: deleting the hazard chosen by its id removes exactly one record, one that
\* carries the id, and leaves the other hazards as they were
C5_DeleteRemovesOne ==
    [][\A sel_id \in Ids :
          DeleteHazard(sel_id) =>
              \E k \in 1..Len(assess.hazards) :
                  /\ assess.hazards[k].id = sel_id
                  /\ assess'.hazards = RemoveAt(assess.hazards, k)]_vars

\* C9: an upload that from_json rejects (a text that is not JSON, a hazard without
\* a required key, a measure with an unknown field) ends the run in the exception
\* and leaves the assessment of the session as it was
C9_FailedImportKeepsAssessment ==
    [][\A d \in SessionDocs :
          (UploadFile(d) /\ ~from_json(d).ok) =>
              /\ error' = from_json(d).exc
              /\ upload' = <<d>>
              /\ assess' = assess]_vars

\* a file that from_json rejected is held and the hazards rated before are there
C9_Witness ==
    /\ error \in ImportErrors
    /\ upload # <<>>
    /\ \E k \in 1..Len(assess.hazards) : assess.hazards[k].prob = 5

====
